---- MODULE Spec2Model ----
(***************************************************************************)
(* UnsizedHashtable<[u8], V>: the composite variable-length-key hash table *)
(* of src/common/hashtable/src/unsized_hashtable.rs.                       *)
(*                                                                         *)
(* A byte is a number, a u64 is the tuple of its 8 little-endian bytes, a  *)
(* key is a sequence of bytes.  A pointer to key bytes is a record         *)
(* [region, idx]: "arena" (a slice of the table's bump arena), "stable"    *)
(* (caller memory that outlives the table) or "transient" (caller memory   *)
(* that is only valid during the call that received it).  A pointer into   *)
(* the arena of another table has region "other_arena" and carries the     *)
(* bytes that arena holds there.                                           *)
(*                                                                         *)
(* AsyncTransformer<T>: the processor of                                   *)
(* src/query/pipeline/transforms/src/processors/transforms/                *)
(* transform_async.rs, between an input port and an output port.  An       *)
(* Option is a sequence of length 0 (None) or 1 (Some); a DataBlock is a   *)
(* record [id, done], done telling whether transform has been applied.     *)
(***************************************************************************)
EXTENDS Integers, Sequences, FiniteSets, TLC

\* Number of table operations in one behaviour.
MaxOps == 3

\* Number of inserts the accumulating caller makes in one behaviour.
MaxInserts == 3

\* Number of operations on a table used as a set in one behaviour.
MaxSetOps == 2

\* Largest number of keys in table0..table4 of the table merged in.
MaxOtherKeys == 2

\* Longest key of the inline-packing specification, and its number of inserts.
MaxInlineLen == 24

MaxInlineOps == 1

\* Number of operations of the borrowing caller and its twin.
MaxBorrowOps == 2

\* Number of blocks (or errors) the upstream processor sends.
MaxBlocks == 2

\* Range of the abstract hash function (small, so that distinct keys collide).
HashMod == 3

\* Capacity given to with_capacity at construction (small, so sub-tables grow).
InitCapacity == 1

\* A slot value that has been reserved but not written (MaybeUninit).
Uninit == -1

Rep(n, b) == [i \in 1..n |-> b]

\* The keys callers use in every specification, held in caller memory that
\* outlives the table.  Lengths 0, 1, 8 | 9, 16 | 17, 24 | 25 sit on every
\* routing boundary; two keys end in 0x00 and one has a 0x00 that is not the
\* last byte.
MainKeys ==
  << <<>>,
     <<1>>,
     <<1, 0>>,
     <<0, 2>>,
     Rep(8, 1),
     Rep(9, 1),
     Rep(16, 1),
     Rep(16, 1) \o <<0>>,
     Rep(17, 1),
     Rep(24, 1),
     Rep(25, 1) >>

\* Keys that differ from a key of MainKeys in one byte only, one per sub-table;
\* used where pairs of near-equal keys are inserted.
NearKeys ==
  << <<2>>,
     <<4, 0>>,
     Rep(8, 1) \o <<2>>,
     Rep(16, 1) \o <<2>>,
     Rep(24, 1) \o <<4>> >>

\* The shapes of the keys used to exercise the packing of inline keys.
Shapes == <<"ones", "zeros_one", "zero_before_last", "zero_first", "zero_middle", "zero_last">>

\* The key of length n with the shape of index p.
Shaped(n, p) ==
  CASE Shapes[p] = "ones"             -> Rep(n, 1)
    [] Shapes[p] = "zeros_one"        -> [i \in 1..n |-> IF i = n THEN 1 ELSE 0]
    [] Shapes[p] = "zero_before_last" -> [i \in 1..n |-> IF i = n - 1 THEN 0 ELSE 1]
    [] Shapes[p] = "zero_first"       -> [i \in 1..n |-> IF i = 1 /\ n > 1 THEN 0 ELSE 2]
    [] Shapes[p] = "zero_middle"      -> [i \in 1..n |-> IF i \in {1, n} THEN 3 ELSE 0]
    [] OTHER                          -> [i \in 1..n |-> IF i = n THEN 0 ELSE 1]

\* Every shape at every length from 1 to MaxInlineLen.
InlineKeys ==
  [j \in 1..(MaxInlineLen * Len(Shapes)) |->
     Shaped(((j - 1) \div Len(Shapes)) + 1, ((j - 1) % Len(Shapes)) + 1)]

KeyList == MainKeys \o NearKeys \o InlineKeys

KeyIds == 1..Len(MainKeys)

AllKeyIds == 1..(Len(MainKeys) + Len(NearKeys))

InlineKeyIds == (Len(MainKeys) + Len(NearKeys) + 1)..Len(KeyList)

\* The index in KeyList of the key with bytes b.
KeyId(b) == CHOOSE i \in AllKeyIds : KeyList[i] = b

VARIABLES
  ht,     \* the UnsizedHashtable: arena, key_size, table0..table4, tails
  log,    \* history: slot -> [key, val, tail] for every slot an insert returned
          \* as Ok: the key inserted, the last value written and whether the
          \* tail list was enabled at the insert
  last,   \* history: the last operation and what it returned
  ops,    \* history: number of operations performed
  twin,   \* a second table: the one given through insert_and_entry the keys
          \* ht is given through the borrowing inserts, with what its last call
          \* returned; or the table last passed to set_merge as other
  proc,   \* the AsyncTransformer: called_on_start, called_on_finish,
          \* input_data, output_data
  input,  \* the state its InputPort shares with the upstream processor
  output, \* the state its OutputPort shares with the downstream processor
  calls   \* history: the calls made on the processor and by it

vars == <<ht, log, last, ops, twin, proc, input, output, calls>>

tableVars == <<ht, log, last, ops, twin>>

asyncVars == <<proc, input, output, calls>>

----------------------------------------------------------------------------
(* Memory *)

StablePtr(i) == [region |-> "stable", idx |-> i]

TransientPtr(i) == [region |-> "transient", idx |-> i]

ArenaPtr(i) == [region |-> "arena", idx |-> i]

\* A pointer to slice i of the arena of another table.
OtherArenaPtr(other_arena, i) ==
  [region |-> "other_arena", idx |-> i, bytes |-> other_arena[i]]

\* NonNull<[u8]>::as_ref: the bytes a pointer refers to.
Deref(arena, p) ==
  IF p.region = "arena" THEN arena[p.idx]
  ELSE IF p.region = "other_arena" THEN p.bytes
  ELSE KeyList[p.idx]

\* Bump::alloc_slice_copy: the arena with a copy of b appended.
alloc_slice_copy(arena, b) == Append(arena, b)

SumSeq(s) ==
  LET F[n \in 0..Len(s)] == IF n = 0 THEN 0 ELSE F[n - 1] + s[n]
  IN F[Len(s)]

\* FastHash for [u8], abstracted to a small range.
fast_hash(b) == (SumSeq(b) + Len(b)) % HashMod

\* utils::read_le(p, n): n bytes from offset off as a little-endian u64.
read_le(b, off, n) == [i \in 1..8 |-> IF i <= n THEN b[off + i] ELSE 0]

\* (p as *const u64).offset(w).read_unaligned(): 8 bytes from offset 8*w.
read_unaligned(b, w) == [i \in 1..8 |-> b[8 * w + i]]

----------------------------------------------------------------------------
(* Keys *)

FallbackKey_new(arena, p) == [ptr |-> p, hash |-> fast_hash(Deref(arena, p))]

FallbackKey_new_with_hash(p, hash) == [ptr |-> p, hash |-> hash]

\* FallbackKey::eq comparing the pointers instead of the bytes they refer to.
FallbackKey_eq_ptr(arena, a, b) ==
  IF a.hash = b.hash THEN a.ptr = b.ptr ELSE FALSE

\* FallbackKey::eq comparing the hashes only.
FallbackKey_eq_hash(arena, a, b) == a.hash = b.hash

FallbackKey_eq(arena, a, b) ==
  IF a.hash = b.hash
    THEN Deref(arena, a.ptr) = Deref(arena, b.ptr)
    ELSE FALSE

\* The packed InlineKey<0>, InlineKey<1>, InlineKey<2>: 1, 2 or 3 words.
PackInline1(b) == << read_le(b, 0, Len(b)) >>

\* InlineKey<1> packing that leaves the second word empty.
PackInline2_first_word(b) == << read_unaligned(b, 0), read_le(b, 8, 0) >>

PackInline2(b) == << read_unaligned(b, 0), read_le(b, 8, Len(b) - 8) >>

PackInline3(b) ==
  << read_unaligned(b, 0), read_unaligned(b, 1), read_le(b, 16, Len(b) - 16) >>

Flatten(words) == [i \in 1..(8 * Len(words)) |-> words[((i - 1) \div 8) + 1][((i - 1) % 8) + 1]]

\* The scan taken from the low byte up: the smallest i with a non-zero byte.
ScanLast_from_low(w) ==
  LET nz == {i \in 0..7 : w[i + 1] # 0}
  IN IF nz = {} THEN -1 ELSE CHOOSE i \in nz : \A j \in nz : i <= j

\* The largest i in 0..7 with a non-zero byte i in word w, or -1 when w is zero:
\* "for i in (0..=7).rev() { if bytes[i] != 0 { return ... } }".
ScanLast(w) ==
  LET nz == {i \in 0..7 : w[i + 1] # 0}
  IN IF nz = {} THEN -1 ELSE CHOOSE i \in nz : \A j \in nz : j <= i

\* What key() gives when it runs into unreachable!().
Unreachable == << -1 >>

\* Keyable::is_zero for InlineKey<N>: the slot's last word is zero.
InlineKey_is_zero(k) == k[Len(k)] = Rep(8, 0)

----------------------------------------------------------------------------
(* Sub-tables: the contracts of Table0, TableEmpty and TailArray.          *)
(* A sub-table is [entries, cap]; an entry is [key, val]; the position of  *)
(* an entry in entries is its slot.                                        *)

Table0_with_capacity(n) == [entries |-> <<>>, cap |-> n]

Table0_len(tab) == Len(tab.entries)

Table0_capacity(tab) == tab.cap

\* check_grow: reserve room for one more entry; entries keep their keys.
Table0_check_grow(tab) ==
  IF Len(tab.entries) + 1 > tab.cap THEN [tab EXCEPT !.cap = 2 * @] ELSE tab

\* Slot of the entry whose InlineKey equals k (derived PartialEq), or 0.
Table0_find(tab, k) ==
  LET hit == {i \in 1..Len(tab.entries) : tab.entries[i].key = k}
  IN IF hit = {} THEN 0 ELSE CHOOSE i \in hit : \A j \in hit : i <= j

\* Slot of the entry whose FallbackKey equals k (FallbackKey::eq), or 0.
Table4_find(arena, tab, k) ==
  LET hit == {i \in 1..Len(tab.entries) : FallbackKey_eq(arena, tab.entries[i].key, k)}
  IN IF hit = {} THEN 0 ELSE CHOOSE i \in hit : \A j \in hit : i <= j

\* insert(k): Ok(new entry, value unwritten) or Err(existing entry).
InsertAt(tab, k, found) ==
  IF found > 0
    THEN [tab |-> tab, res |-> "Err", idx |-> found]
    ELSE [tab |-> [tab EXCEPT !.entries = Append(@, [key |-> k, val |-> Uninit])],
          res |-> "Ok", idx |-> Len(tab.entries) + 1]

Table0_insert(tab, k) == InsertAt(tab, k, Table0_find(tab, k))

\* insert_with_hash(k, h) with h the hash of k.
Table0_insert_with_hash(tab, k, hash) == InsertAt(tab, k, Table0_find(tab, k))

Table4_insert(arena, tab, k) == InsertAt(tab, k, Table4_find(arena, tab, k))

Table4_insert_with_hash(arena, tab, k, hash) ==
  InsertAt(tab, k, Table4_find(arena, tab, k))

\* Entry::set_key on the entry in slot idx.
Entry_set_key(tab, idx, k) == [tab EXCEPT !.entries[idx].key = k]

\* Entry::write / *get_mut() = v on the entry in slot idx.
Entry_write(tab, idx, v) == [tab EXCEPT !.entries[idx].val = v]

Table0_clear(tab) == [tab EXCEPT !.entries = <<>>]

\* TableEmpty: at most one entry, for the zero-length key.
TableEmpty_new == [entries |-> <<>>, cap |-> 1]

TableEmpty_insert(tab) ==
  IF Len(tab.entries) > 0
    THEN [tab |-> tab, res |-> "Err", idx |-> 1]
    ELSE [tab |-> [tab EXCEPT !.entries = << [key |-> <<>>, val |-> Uninit] >>],
          res |-> "Ok", idx |-> 1]

\* tails: Option<TailArray>; None is [is_some |-> FALSE].
TailsNone == [is_some |-> FALSE, entries |-> <<>>]

TailArray_new == [is_some |-> TRUE, entries |-> <<>>]

\* TailArray::insert(key): append a record, no lookup.
TailArray_insert(tails, k) ==
  [tails EXCEPT !.entries = Append(@, [key |-> k, val |-> Uninit])]

\* Table0::set_merge for InlineKey: every key of other the table does not
\* hold is inserted.
RECURSIVE Table0_set_merge(_, _)
Table0_set_merge(tab, other) ==
  IF other.entries = <<>> THEN tab
  ELSE LET r == Table0_insert(Table0_check_grow(tab), Head(other.entries).key)
       IN Table0_set_merge(r.tab, [other EXCEPT !.entries = Tail(@)])

\* A FallbackKey of another table as it reads once copied out of that table:
\* the pointer still refers to the memory it referred to there.
ForeignKey(other_arena, k) ==
  IF k.ptr.region = "arena"
    THEN [k EXCEPT !.ptr = OtherArenaPtr(other_arena, k.ptr.idx)]
    ELSE k

\* Table0::set_merge for FallbackKey: the keys are copied as they are, pointer
\* and hash.
RECURSIVE Table4_set_merge(_, _, _, _)
Table4_set_merge(arena, tab, other_arena, other) ==
  IF other.entries = <<>> THEN tab
  ELSE LET k == ForeignKey(other_arena, Head(other.entries).key)
           r == Table4_insert(arena, Table0_check_grow(tab), k)
       IN Table4_set_merge(arena, r.tab, other_arena, [other EXCEPT !.entries = Tail(@)])

----------------------------------------------------------------------------
(* The composite table *)

with_capacity(capacity) ==
  [ arena    |-> <<>>,
    key_size |-> 0,
    table0   |-> TableEmpty_new,
    table1   |-> Table0_with_capacity(capacity),
    table2   |-> Table0_with_capacity(capacity),
    table3   |-> Table0_with_capacity(capacity),
    table4   |-> Table0_with_capacity(capacity),
    tails    |-> TailsNone ]

\* len() that counts the tail records too.
len_with_tails(t) ==
  Table0_len(t.table0) + Table0_len(t.table1) + Table0_len(t.table2)
    + Table0_len(t.table3) + Table0_len(t.table4) + Len(t.tails.entries)

len(t) ==
  Table0_len(t.table0) + Table0_len(t.table1) + Table0_len(t.table2)
    + Table0_len(t.table3) + Table0_len(t.table4)

unsize_key_size(t) == t.key_size

\* An entry reference: the sub-table (5 is the tail list) and the slot in it.
Slot(tbl, idx) == [tbl |-> tbl, idx |-> idx]

NoSlot == Slot(0, 0)

EntriesOf(t, tbl) ==
  CASE tbl = 0 -> t.table0.entries
    [] tbl = 1 -> t.table1.entries
    [] tbl = 2 -> t.table2.entries
    [] tbl = 3 -> t.table3.entries
    [] tbl = 4 -> t.table4.entries
    [] OTHER   -> t.tails.entries

\* The result of an insert: the table afterwards, Ok or Err, the entry returned.
Result(t, res, slot) == [t |-> t, res |-> res, slot |-> slot]

\* key.last().copied() == Some(0)
LastIsNul(b) == Len(b) > 0 /\ b[Len(b)] = 0

\* A tail arm that looks the key up in the tail list before appending.
TailArm_dedup(t, key) ==
  LET k   == FallbackKey_new(t.arena, key)
      hit == {i \in 1..Len(t.tails.entries) :
                Deref(t.arena, t.tails.entries[i].key.ptr) = Deref(t.arena, key)}
  IN IF hit = {}
       THEN Result([t EXCEPT !.tails = TailArray_insert(@, k)],
                   "Ok", Slot(5, Len(t.tails.entries) + 1))
       ELSE Result(t, "Err", Slot(5, CHOOSE i \in hit : TRUE))

\* A tail arm that counts the key in key_size as the other arms do.
TailArm_counting(t, key) ==
  Result([t EXCEPT !.tails = TailArray_insert(@, FallbackKey_new(t.arena, key)),
                   !.key_size = @ + Len(Deref(t.arena, key))],
         "Ok", Slot(5, Len(t.tails.entries) + 1))

\* "if !key.is_empty() { if let Some(tails) = &mut self.tails { ... } }"
TailArm(t, key) ==
  Result([t EXCEPT !.tails = TailArray_insert(@, FallbackKey_new(t.arena, key))],
         "Ok", Slot(5, Len(t.tails.entries) + 1))

\* A table0 arm that hands out a new entry on every call.
EmptyArm_always_ok(t) ==
  Result([t EXCEPT !.table0.entries = << [key |-> <<>>, val |-> Uninit] >>],
         "Ok", Slot(0, 1))

\* "0 => self.table0.insert()"
EmptyArm(t) ==
  LET r == TableEmpty_insert(t.table0)
  IN Result([t EXCEPT !.table0 = r.tab], r.res, Slot(0, r.idx))

\* key_size after "self.key_size += key.len()" in the Ok closure.
AddKeySize(t, res, b) == IF res = "Ok" THEN t.key_size + Len(b) ELSE t.key_size

----------------------------------------------------------------------------
(* insert_and_entry *)

\* The arena copy and key swap of a newly inserted table4 entry.
SaveKey(t, r, b) ==
  LET arena == alloc_slice_copy(t.arena, b)
      s     == ArenaPtr(Len(arena))
      hash  == r.tab.entries[r.idx].key.hash
  IN [t EXCEPT !.arena = arena,
               !.table4 = Entry_set_key(r.tab, r.idx, FallbackKey_new_with_hash(s, hash))]

\* The trailing-0x00 arm without the arena copy: the probe key stays stored.
insert_and_entry_nul_no_copy(t, key) ==
  LET b == Deref(t.arena, key)
      g == Table0_check_grow(t.table4)
      r == Table4_insert(t.arena, g, FallbackKey_new(t.arena, key))
  IN Result([t EXCEPT !.table4 = r.tab, !.key_size = AddKeySize(t, r.res, b)],
            r.res, Slot(4, r.idx))

\* "_ if key.last().copied() == Some(0) => { ... }"
insert_and_entry_nul(t, key) ==
  LET b == Deref(t.arena, key)
      g == Table0_check_grow(t.table4)
      r == Table4_insert(t.arena, g, FallbackKey_new(t.arena, key))
  IN IF r.res = "Ok"
       THEN Result([SaveKey(t, r, b) EXCEPT !.key_size = @ + Len(b)], "Ok", Slot(4, r.idx))
       ELSE Result([t EXCEPT !.table4 = r.tab], "Err", Slot(4, r.idx))

insert_and_entry_1(t, key) ==
  LET b == Deref(t.arena, key)
      r == Table0_insert(Table0_check_grow(t.table1), PackInline1(b))
  IN Result([t EXCEPT !.table1 = r.tab, !.key_size = AddKeySize(t, r.res, b)],
            r.res, Slot(1, r.idx))

insert_and_entry_2(t, key) ==
  LET b == Deref(t.arena, key)
      r == Table0_insert(Table0_check_grow(t.table2), PackInline2(b))
  IN Result([t EXCEPT !.table2 = r.tab, !.key_size = AddKeySize(t, r.res, b)],
            r.res, Slot(2, r.idx))

insert_and_entry_3(t, key) ==
  LET b == Deref(t.arena, key)
      r == Table0_insert(Table0_check_grow(t.table3), PackInline3(b))
  IN Result([t EXCEPT !.table3 = r.tab, !.key_size = AddKeySize(t, r.res, b)],
            r.res, Slot(3, r.idx))

\* "_ => { ... }"
insert_and_entry_fallback(t, key) ==
  LET b == Deref(t.arena, key)
      g == Table0_check_grow(t.table4)
      r == Table4_insert(t.arena, g, FallbackKey_new(t.arena, key))
  IN IF r.res = "Ok"
       THEN Result([SaveKey(t, r, b) EXCEPT !.key_size = @ + Len(b)], "Ok", Slot(4, r.idx))
       ELSE Result([t EXCEPT !.table4 = r.tab], "Err", Slot(4, r.idx))

\* insert_and_entry with the length arms tried before the trailing-0x00 arm.
insert_and_entry_len_first(t, key) ==
  LET b == Deref(t.arena, key)
  IN IF b # <<>> /\ t.tails.is_some THEN TailArm(t, key)
     ELSE IF Len(b) = 0 THEN EmptyArm(t)
     ELSE IF Len(b) \in 1..8 THEN insert_and_entry_1(t, key)
     ELSE IF Len(b) \in 9..16 THEN insert_and_entry_2(t, key)
     ELSE IF Len(b) \in 17..24 THEN insert_and_entry_3(t, key)
     ELSE IF LastIsNul(b) THEN insert_and_entry_nul(t, key)
     ELSE insert_and_entry_fallback(t, key)

insert_and_entry(t, key) ==
  LET b == Deref(t.arena, key)
  IN IF b # <<>> /\ t.tails.is_some THEN TailArm(t, key)
     ELSE IF LastIsNul(b) THEN insert_and_entry_nul(t, key)
     ELSE IF Len(b) = 0 THEN EmptyArm(t)
     ELSE IF Len(b) \in 1..8 THEN insert_and_entry_1(t, key)
     ELSE IF Len(b) \in 9..16 THEN insert_and_entry_2(t, key)
     ELSE IF Len(b) \in 17..24 THEN insert_and_entry_3(t, key)
     ELSE insert_and_entry_fallback(t, key)

\* HashtableLike::insert: insert_and_entry, the entry turned into its value slot.
insert(t, key) == insert_and_entry(t, key)

----------------------------------------------------------------------------
(* insert_and_entry_with_hash *)

\* The arena copy and key swap, keeping the caller's hash.
SaveKeyWithHash(t, r, b, hash) ==
  LET arena == alloc_slice_copy(t.arena, b)
      s     == ArenaPtr(Len(arena))
  IN [t EXCEPT !.arena = arena,
               !.table4 = Entry_set_key(r.tab, r.idx, FallbackKey_new_with_hash(s, hash))]

\* "_ if key.last().copied() == Some(0) => { ... }": key_size is left alone.
insert_and_entry_with_hash_nul(t, key, hash) ==
  LET b == Deref(t.arena, key)
      g == Table0_check_grow(t.table4)
      r == Table4_insert_with_hash(t.arena, g, FallbackKey_new_with_hash(key, hash), hash)
  IN IF r.res = "Ok"
       THEN Result(SaveKeyWithHash(t, r, b, hash), "Ok", Slot(4, r.idx))
       ELSE Result([t EXCEPT !.table4 = r.tab], "Err", Slot(4, r.idx))

\* "0 => self.table0.insert().map(|x| { self.key_size += key.len(); ... })"
insert_and_entry_with_hash_0(t, key) ==
  LET b == Deref(t.arena, key)
      r == TableEmpty_insert(t.table0)
  IN Result([t EXCEPT !.table0 = r.tab, !.key_size = AddKeySize(t, r.res, b)],
            r.res, Slot(0, r.idx))

insert_and_entry_with_hash_1(t, key, hash) ==
  LET b == Deref(t.arena, key)
      r == Table0_insert_with_hash(Table0_check_grow(t.table1), PackInline1(b), hash)
  IN Result([t EXCEPT !.table1 = r.tab, !.key_size = AddKeySize(t, r.res, b)],
            r.res, Slot(1, r.idx))

insert_and_entry_with_hash_2(t, key, hash) ==
  LET b == Deref(t.arena, key)
      r == Table0_insert_with_hash(Table0_check_grow(t.table2), PackInline2(b), hash)
  IN Result([t EXCEPT !.table2 = r.tab, !.key_size = AddKeySize(t, r.res, b)],
            r.res, Slot(2, r.idx))

insert_and_entry_with_hash_3(t, key, hash) ==
  LET b == Deref(t.arena, key)
      r == Table0_insert_with_hash(Table0_check_grow(t.table3), PackInline3(b), hash)
  IN Result([t EXCEPT !.table3 = r.tab, !.key_size = AddKeySize(t, r.res, b)],
            r.res, Slot(3, r.idx))

\* The arena copy made, but the entry's key not swapped for it.
insert_and_entry_with_hash_fallback_no_set_key(t, key, hash) ==
  LET b == Deref(t.arena, key)
      g == Table0_check_grow(t.table4)
      r == Table4_insert_with_hash(t.arena, g, FallbackKey_new_with_hash(key, hash), hash)
  IN IF r.res = "Ok"
       THEN Result([t EXCEPT !.arena = alloc_slice_copy(@, b), !.table4 = r.tab,
                             !.key_size = @ + Len(b)],
                   "Ok", Slot(4, r.idx))
       ELSE Result([t EXCEPT !.table4 = r.tab], "Err", Slot(4, r.idx))

\* "_ => { ... }"
insert_and_entry_with_hash_fallback(t, key, hash) ==
  LET b == Deref(t.arena, key)
      g == Table0_check_grow(t.table4)
      r == Table4_insert_with_hash(t.arena, g, FallbackKey_new_with_hash(key, hash), hash)
  IN IF r.res = "Ok"
       THEN Result([SaveKeyWithHash(t, r, b, hash) EXCEPT !.key_size = @ + Len(b)],
                   "Ok", Slot(4, r.idx))
       ELSE Result([t EXCEPT !.table4 = r.tab], "Err", Slot(4, r.idx))

insert_and_entry_with_hash(t, key, hash) ==
  LET b == Deref(t.arena, key)
  IN IF b # <<>> /\ t.tails.is_some THEN TailArm(t, key)
     ELSE IF LastIsNul(b) THEN insert_and_entry_with_hash_nul(t, key, hash)
     ELSE IF Len(b) = 0 THEN insert_and_entry_with_hash_0(t, key)
     ELSE IF Len(b) \in 1..8 THEN insert_and_entry_with_hash_1(t, key, hash)
     ELSE IF Len(b) \in 9..16 THEN insert_and_entry_with_hash_2(t, key, hash)
     ELSE IF Len(b) \in 17..24 THEN insert_and_entry_with_hash_3(t, key, hash)
     ELSE insert_and_entry_with_hash_fallback(t, key, hash)

----------------------------------------------------------------------------
(* insert_and_entry_borrowing *)

\* Table4 arms that copy the key into the arena as insert_and_entry does.
insert_and_entry_borrowing_4_copy(t, key) == insert_and_entry_fallback(t, key)

\* Both table4 arms: the entry keeps the FallbackKey made from the caller's key.
insert_and_entry_borrowing_4(t, key) ==
  LET b == Deref(t.arena, key)
      g == Table0_check_grow(t.table4)
      r == Table4_insert(t.arena, g, FallbackKey_new(t.arena, key))
  IN Result([t EXCEPT !.table4 = r.tab, !.key_size = AddKeySize(t, r.res, b)],
            r.res, Slot(4, r.idx))

insert_and_entry_borrowing_1(t, key) ==
  LET b == Deref(t.arena, key)
      r == Table0_insert(Table0_check_grow(t.table1), PackInline1(b))
  IN Result([t EXCEPT !.table1 = r.tab, !.key_size = AddKeySize(t, r.res, b)],
            r.res, Slot(1, r.idx))

insert_and_entry_borrowing_2(t, key) ==
  LET b == Deref(t.arena, key)
      r == Table0_insert(Table0_check_grow(t.table2), PackInline2(b))
  IN Result([t EXCEPT !.table2 = r.tab, !.key_size = AddKeySize(t, r.res, b)],
            r.res, Slot(2, r.idx))

insert_and_entry_borrowing_3(t, key) ==
  LET b == Deref(t.arena, key)
      r == Table0_insert(Table0_check_grow(t.table3), PackInline3(b))
  IN Result([t EXCEPT !.table3 = r.tab, !.key_size = AddKeySize(t, r.res, b)],
            r.res, Slot(3, r.idx))

\* insert_and_entry_borrowing without the check of the tail list.
insert_and_entry_borrowing_no_tail(t, key) ==
  LET b == Deref(t.arena, key)
  IN IF LastIsNul(b) THEN insert_and_entry_borrowing_4(t, key)
     ELSE IF Len(b) = 0 THEN EmptyArm(t)
     ELSE IF Len(b) \in 1..8 THEN insert_and_entry_borrowing_1(t, key)
     ELSE IF Len(b) \in 9..16 THEN insert_and_entry_borrowing_2(t, key)
     ELSE IF Len(b) \in 17..24 THEN insert_and_entry_borrowing_3(t, key)
     ELSE insert_and_entry_borrowing_4(t, key)

insert_and_entry_borrowing(t, key) ==
  LET b == Deref(t.arena, key)
  IN IF b # <<>> /\ t.tails.is_some THEN TailArm(t, key)
     ELSE IF LastIsNul(b) THEN insert_and_entry_borrowing_4(t, key)
     ELSE IF Len(b) = 0 THEN EmptyArm(t)
     ELSE IF Len(b) \in 1..8 THEN insert_and_entry_borrowing_1(t, key)
     ELSE IF Len(b) \in 9..16 THEN insert_and_entry_borrowing_2(t, key)
     ELSE IF Len(b) \in 17..24 THEN insert_and_entry_borrowing_3(t, key)
     ELSE insert_and_entry_borrowing_4(t, key)

\* insert_borrowing: insert_and_entry_borrowing, the entry turned into its
\* value slot.
insert_borrowing(t, key) == insert_and_entry_borrowing(t, key)

\* set_insert on a table of unit values.
set_insert(t, key) == insert_borrowing(t, key)

\* set_merge(other) that leaves table4 out.
set_merge_skip_table4(t, other) ==
  [t EXCEPT !.table0 = IF Len(other.table0.entries) > 0
                         THEN TableEmpty_insert(@).tab ELSE @,
            !.table1 = Table0_set_merge(@, other.table1),
            !.table2 = Table0_set_merge(@, other.table2),
            !.table3 = Table0_set_merge(@, other.table3)]

\* set_merge(other): table0 once per entry of other.table0, then the
\* sub-tables pairwise; key_size, the arena and the tail list are not touched.
set_merge(t, other) ==
  [t EXCEPT !.table0 = IF Len(other.table0.entries) > 0
                         THEN TableEmpty_insert(@).tab ELSE @,
            !.table1 = Table0_set_merge(@, other.table1),
            !.table2 = Table0_set_merge(@, other.table2),
            !.table3 = Table0_set_merge(@, other.table3),
            !.table4 = Table4_set_merge(t.arena, @, other.arena, other.table4)]

----------------------------------------------------------------------------
(* Entries, lookup, iteration *)

\* key() taking the table2 length as i + 8.
EntryRef_key_short2(arena, tbl, e) ==
  CASE tbl = 0 -> <<>>
    [] tbl = 1 ->
         LET i == ScanLast(e.key[1])
         IN IF i < 0 THEN Unreachable ELSE SubSeq(Flatten(e.key), 1, i + 1)
    [] tbl = 2 ->
         LET i == ScanLast(e.key[2])
         IN IF i < 0 THEN Unreachable ELSE SubSeq(Flatten(e.key), 1, i + 8)
    [] tbl = 3 ->
         LET i == ScanLast(e.key[3])
         IN IF i < 0 THEN Unreachable ELSE SubSeq(Flatten(e.key), 1, i + 17)
    [] OTHER -> Deref(arena, e.key.ptr)

\* UnsizedHashtableEntryRefInner::key on the entry e of sub-table tbl.
EntryRef_key(arena, tbl, e) ==
  CASE tbl = 0 -> <<>>
    [] tbl = 1 ->
         LET i == ScanLast(e.key[1])
         IN IF i < 0 THEN Unreachable ELSE SubSeq(Flatten(e.key), 1, i + 1)
    [] tbl = 2 ->
         LET i == ScanLast(e.key[2])
         IN IF i < 0 THEN Unreachable ELSE SubSeq(Flatten(e.key), 1, i + 9)
    [] tbl = 3 ->
         LET i == ScanLast(e.key[3])
         IN IF i < 0 THEN Unreachable ELSE SubSeq(Flatten(e.key), 1, i + 17)
    [] OTHER -> Deref(arena, e.key.ptr)

\* entry(key) that falls back to the tail list when the sub-table has no entry.
entry_with_tails(t, key) ==
  LET b   == Deref(t.arena, key)
      hit == {i \in 1..Len(t.tails.entries) :
                Deref(t.arena, t.tails.entries[i].key.ptr) = b}
      e   == IF LastIsNul(b)
               THEN Slot(4, Table4_find(t.arena, t.table4, FallbackKey_new(t.arena, key)))
             ELSE IF Len(b) = 0 THEN Slot(0, Len(t.table0.entries))
             ELSE IF Len(b) \in 1..8 THEN Slot(1, Table0_find(t.table1, PackInline1(b)))
             ELSE IF Len(b) \in 9..16 THEN Slot(2, Table0_find(t.table2, PackInline2(b)))
             ELSE IF Len(b) \in 17..24 THEN Slot(3, Table0_find(t.table3, PackInline3(b)))
             ELSE Slot(4, Table4_find(t.arena, t.table4, FallbackKey_new(t.arena, key)))
  IN IF e.idx = 0 /\ hit # {} THEN Slot(5, CHOOSE i \in hit : TRUE) ELSE e

\* entry(key): the slot of the entry found, or NoSlot for None.
entry(t, key) ==
  LET b == Deref(t.arena, key)
  IN IF LastIsNul(b)
       THEN Slot(4, Table4_find(t.arena, t.table4, FallbackKey_new(t.arena, key)))
     ELSE IF Len(b) = 0 THEN Slot(0, Len(t.table0.entries))
     ELSE IF Len(b) \in 1..8 THEN Slot(1, Table0_find(t.table1, PackInline1(b)))
     ELSE IF Len(b) \in 9..16 THEN Slot(2, Table0_find(t.table2, PackInline2(b)))
     ELSE IF Len(b) \in 17..24 THEN Slot(3, Table0_find(t.table3, PackInline3(b)))
     ELSE Slot(4, Table4_find(t.arena, t.table4, FallbackKey_new(t.arena, key)))

\* entry_mut(key): the same dispatch through get_mut of the sub-tables.
entry_mut(t, key) ==
  LET b == Deref(t.arena, key)
  IN IF LastIsNul(b)
       THEN Slot(4, Table4_find(t.arena, t.table4, FallbackKey_new(t.arena, key)))
     ELSE IF Len(b) = 0 THEN Slot(0, Len(t.table0.entries))
     ELSE IF Len(b) \in 1..8 THEN Slot(1, Table0_find(t.table1, PackInline1(b)))
     ELSE IF Len(b) \in 9..16 THEN Slot(2, Table0_find(t.table2, PackInline2(b)))
     ELSE IF Len(b) \in 17..24 THEN Slot(3, Table0_find(t.table3, PackInline3(b)))
     ELSE Slot(4, Table4_find(t.arena, t.table4, FallbackKey_new(t.arena, key)))

IsSome(slot) == slot.idx > 0

\* get(key) that inserts the probe key when it finds no entry.
get_or_insert(t, key) ==
  LET e == entry(t, key)
  IN IF IsSome(e)
       THEN [t |-> t, some |-> TRUE, slot |-> e]
       ELSE [t |-> insert_and_entry_borrowing(t, key).t, some |-> FALSE, slot |-> e]

\* get(key) through &self: the table as the call leaves it, and entry(key)
\* mapped to its value.
get(t, key) ==
  LET e == entry(t, key)
  IN [t |-> t, some |-> IsSome(e), slot |-> e]

\* The key and the value an entry reference gives.
key_of(t, slot) == EntryRef_key(t.arena, slot.tbl, EntriesOf(t, slot.tbl)[slot.idx])

get_of(t, slot) == EntriesOf(t, slot.tbl)[slot.idx].val

\* iter(): one sub-iterator per sub-table, tail_it only if tails is Some.
\* A sub-iterator is Some with the number of entries it has yielded, or None.
iter(t) ==
  [tbl \in 0..5 |-> [is_some |-> (tbl < 5 \/ t.tails.is_some), pos |-> 0]]

IterNone == [is_some |-> FALSE, pos |-> 0]

\* next() that serves the sub-iterators from the tail list back to table0.
RECURSIVE NextFrom_reversed(_, _, _)
NextFrom_reversed(t, it, tbl) ==
  IF tbl > 5 THEN [it |-> it, item |-> NoSlot]
  ELSE IF it[5 - tbl].is_some
    THEN IF it[5 - tbl].pos < Len(EntriesOf(t, 5 - tbl))
           THEN [it |-> [it EXCEPT ![5 - tbl].pos = @ + 1],
                 item |-> Slot(5 - tbl, it[5 - tbl].pos + 1)]
           ELSE NextFrom_reversed(t, [it EXCEPT ![5 - tbl] = IterNone], tbl + 1)
    ELSE NextFrom_reversed(t, it, tbl + 1)

\* UnsizedHashtableIter::next from sub-iterator tbl on: yield its next entry,
\* or set it to None and fall through to the following one.
RECURSIVE NextFrom(_, _, _)
NextFrom(t, it, tbl) ==
  IF tbl > 5 THEN [it |-> it, item |-> NoSlot]
  ELSE IF it[tbl].is_some
    THEN IF it[tbl].pos < Len(EntriesOf(t, tbl))
           THEN [it |-> [it EXCEPT ![tbl].pos = @ + 1], item |-> Slot(tbl, it[tbl].pos + 1)]
           ELSE NextFrom(t, [it EXCEPT ![tbl] = IterNone], tbl + 1)
    ELSE NextFrom(t, it, tbl + 1)

\* next() that returns None as soon as the first live sub-iterator is exhausted.
Iter_next_stop(t, it) ==
  LET live == {tbl \in 0..5 : it[tbl].is_some}
      tbl  == CHOOSE x \in live : \A y \in live : x <= y
  IN IF live = {} \/ it[tbl].pos >= Len(EntriesOf(t, tbl))
       THEN [it |-> it, item |-> NoSlot]
       ELSE NextFrom(t, it, 0)

Iter_next(t, it) == NextFrom(t, it, 0)

\* UnsizedHashtableIterMut::next: the same cascade over the mutable
\* sub-iterators.
IterMut_next(t, it) == NextFrom(t, it, 0)

\* Everything an iterator yields until next() returns None.
RECURSIVE Drain(_, _)
Drain(t, it) ==
  LET r == Iter_next(t, it)
  IN IF r.item = NoSlot THEN <<>> ELSE <<r.item>> \o Drain(t, r.it)

RECURSIVE DrainMut(_, _)
DrainMut(t, it) ==
  LET r == IterMut_next(t, it)
  IN IF r.item = NoSlot THEN <<>> ELSE <<r.item>> \o DrainMut(t, r.it)

\* write(val) that drops the value of a table1 entry.
write_skip_table1(t, slot, v) ==
  CASE slot.tbl = 0 -> [t EXCEPT !.table0 = Entry_write(@, slot.idx, v)]
    [] slot.tbl = 1 -> t
    [] slot.tbl = 2 -> [t EXCEPT !.table2 = Entry_write(@, slot.idx, v)]
    [] slot.tbl = 3 -> [t EXCEPT !.table3 = Entry_write(@, slot.idx, v)]
    [] slot.tbl = 4 -> [t EXCEPT !.table4 = Entry_write(@, slot.idx, v)]
    [] OTHER        -> [t EXCEPT !.tails = Entry_write(@, slot.idx, v)]

\* write(val) / *get_mut() = val through an entry reference.
write(t, slot, v) ==
  CASE slot.tbl = 0 -> [t EXCEPT !.table0 = Entry_write(@, slot.idx, v)]
    [] slot.tbl = 1 -> [t EXCEPT !.table1 = Entry_write(@, slot.idx, v)]
    [] slot.tbl = 2 -> [t EXCEPT !.table2 = Entry_write(@, slot.idx, v)]
    [] slot.tbl = 3 -> [t EXCEPT !.table3 = Entry_write(@, slot.idx, v)]
    [] slot.tbl = 4 -> [t EXCEPT !.table4 = Entry_write(@, slot.idx, v)]
    [] OTHER        -> [t EXCEPT !.tails = Entry_write(@, slot.idx, v)]

\* enable_tail_array() that installs a new tail list on every call.
enable_tail_array_always(t) == [t EXCEPT !.tails = TailArray_new]

enable_tail_array(t) ==
  IF ~t.tails.is_some THEN [t EXCEPT !.tails = TailArray_new] ELSE t

\* clear() that leaves table1 as it is.
clear_keeps_table1(t) ==
  [t EXCEPT !.table0 = Table0_clear(@),
            !.table2 = Table0_clear(@),
            !.table3 = Table0_clear(@),
            !.table4 = Table0_clear(@),
            !.tails  = TailsNone,
            !.arena  = <<>>]

\* clear() that leaves the tail list enabled, emptied.
clear_keeps_tails(t) ==
  [t EXCEPT !.table0 = Table0_clear(@),
            !.table1 = Table0_clear(@),
            !.table2 = Table0_clear(@),
            !.table3 = Table0_clear(@),
            !.table4 = Table0_clear(@),
            !.tails  = IF @.is_some THEN TailArray_new ELSE @,
            !.arena  = <<>>]

\* clear(): key_size is not among the fields it resets.
clear(t) ==
  [t EXCEPT !.table0 = Table0_clear(@),
            !.table1 = Table0_clear(@),
            !.table2 = Table0_clear(@),
            !.table3 = Table0_clear(@),
            !.table4 = Table0_clear(@),
            !.tails  = TailsNone,
            !.arena  = <<>>]

----------------------------------------------------------------------------
(* The caller *)

EmptyLog == [s \in {} |-> 0]

InsertOps ==
  {"insert", "insert_and_entry", "insert_and_entry_with_hash", "insert_and_entry_borrowing"}

\* The key pointer a caller passes.  insert_and_entry_borrowing requires a key
\* that outlives the table, and so does every insert while the tail list is
\* enabled; otherwise the key sits in a buffer the caller reuses after the call.
KeyArg(i) == IF ht.tails.is_some THEN StablePtr(i) ELSE TransientPtr(i)

\* Slots whose logged key is byte-equal to b.
SlotsWithKey(b) == {s \in DOMAIN log : log[s].key = b}

\* On Err the caller either leaves the value alone or adds 1 to it.
UpdChoices(r) == IF r.res = "Ok" THEN {FALSE} ELSE BOOLEAN

\* The caller's use of the entry an insert returned: write(0) into a new slot
\* (required before the next operation), optionally *slot += 1 on an old one.
CalledOn(op, i, r, upd) ==
  LET v == IF r.res = "Ok" THEN 0 ELSE get_of(r.t, r.slot) + 1
      wr == r.res = "Ok" \/ upd
  IN /\ ht' = IF wr THEN write(r.t, r.slot, v) ELSE r.t
     /\ log' = IF r.res = "Ok"
                 THEN (r.slot :> [key |-> KeyList[i], val |-> v,
                                  tail |-> ht.tails.is_some]) @@ log
               ELSE IF upd /\ r.slot \in DOMAIN log THEN [log EXCEPT ![r.slot].val = v]
               ELSE log
     /\ last' = [op |-> op, key |-> i, res |-> r.res, slot |-> r.slot,
                 prior |-> SlotsWithKey(KeyList[i]), tail |-> ht.tails.is_some]
     /\ ops' = ops + 1

Called(op, i, r, upd) == CalledOn(op, i, r, upd) /\ UNCHANGED <<twin, asyncVars>>

\* AsyncTransformer::create: both flags false, no block held.
create ==
  [called_on_start |-> FALSE, called_on_finish |-> FALSE,
   input_data |-> <<>>, output_data |-> <<>>]

\* A port just connected: no data, not finished, no data asked for.
Port_create == [data |-> <<>>, finished |-> FALSE, need |-> FALSE]

Init ==
  /\ ht = with_capacity(InitCapacity)
  /\ log = EmptyLog
  /\ last = [op |-> "new", key |-> 0, res |-> "None", slot |-> NoSlot,
             prior |-> {}, tail |-> FALSE]
  /\ ops = 0
  /\ twin = Result(with_capacity(InitCapacity), "None", NoSlot)
  /\ proc = create
  /\ input = Port_create
  /\ output = Port_create
  /\ calls = [op |-> "create", ev |-> "none", call |-> "none", res |-> "none",
              asynced |-> FALSE, on_start |-> 0, on_start_res |-> "none",
              on_finish |-> 0, sent |-> 0,
              pulled |-> <<>>, transform |-> <<>>, results |-> <<>>,
              pushed |-> <<>>]

Insert(i) ==
  /\ ops < MaxOps
  /\ LET r == insert(ht, KeyArg(i))
     IN \E upd \in UpdChoices(r) : Called("insert", i, r, upd)

InsertAndEntry(i) ==
  /\ ops < MaxOps
  /\ LET r == insert_and_entry(ht, KeyArg(i))
     IN \E upd \in UpdChoices(r) : Called("insert_and_entry", i, r, upd)

InsertAndEntryWithHash(i) ==
  /\ ops < MaxOps
  /\ LET r == insert_and_entry_with_hash(ht, KeyArg(i), fast_hash(KeyList[i]))
     IN \E upd \in UpdChoices(r) : Called("insert_and_entry_with_hash", i, r, upd)

InsertAndEntryBorrowing(i) ==
  /\ ops < MaxOps
  /\ LET r == insert_and_entry_borrowing(ht, StablePtr(i))
     IN \E upd \in UpdChoices(r) : Called("insert_and_entry_borrowing", i, r, upd)

EnableTailArray ==
  /\ ops < MaxOps
  /\ ht' = enable_tail_array(ht)
  /\ last' = [op |-> "enable_tail_array", key |-> 0, res |-> "None", slot |-> NoSlot,
              prior |-> {}, tail |-> ht.tails.is_some]
  /\ ops' = ops + 1
  /\ UNCHANGED <<log, twin, asyncVars>>

Clear ==
  /\ ops < MaxOps
  /\ ht' = clear(ht)
  /\ log' = EmptyLog
  /\ last' = [op |-> "clear", key |-> 0, res |-> "None", slot |-> NoSlot,
              prior |-> {}, tail |-> ht.tails.is_some]
  /\ ops' = ops + 1
  /\ UNCHANGED <<twin, asyncVars>>

Next ==
  \/ \E i \in KeyIds : Insert(i)
  \/ \E i \in KeyIds : InsertAndEntry(i)
  \/ \E i \in KeyIds : InsertAndEntryWithHash(i)
  \/ \E i \in KeyIds : InsertAndEntryBorrowing(i)
  \/ EnableTailArray
  \/ Clear

Spec == Init /\ [][Next]_vars

\* The accumulating caller: it inserts keys of MainKeys and NearKeys into a
\* table without a tail list, writes 0 into every new slot and adds 1 to the
\* slot every Err returns.
InsertAccumulate(i) ==
  /\ ops < MaxInserts
  /\ LET r == insert(ht, KeyArg(i))
     IN Called("insert", i, r, TRUE)

NextAccumulate == \E i \in AllKeyIds : InsertAccumulate(i)

SpecAccumulate == Init /\ [][NextAccumulate]_vars

\* The packing caller: it inserts shaped keys of every length through every
\* insert variant.
InsertInline(i) ==
  /\ ops < MaxInlineOps
  /\ \E op \in InsertOps :
       LET r == CASE op = "insert" -> insert(ht, TransientPtr(i))
                  [] op = "insert_and_entry" -> insert_and_entry(ht, TransientPtr(i))
                  [] op = "insert_and_entry_with_hash" ->
                       insert_and_entry_with_hash(ht, TransientPtr(i), fast_hash(KeyList[i]))
                  [] OTHER -> insert_and_entry_borrowing(ht, StablePtr(i))
       IN Called(op, i, r, FALSE)

NextInline == \E i \in InlineKeyIds : InsertInline(i)

SpecInline == Init /\ [][NextInline]_vars

\* The keys of the set specification: one per routing arm.
SetKeyIds ==
  {KeyId(<<>>), KeyId(<<1>>), KeyId(<<1, 0>>), KeyId(Rep(9, 1)), KeyId(Rep(17, 1)),
   KeyId(Rep(25, 1))}

\* The table after the caller wrote the unit value into a new slot.
Filled(r) == IF r.res = "Ok" THEN write(r.t, r.slot, 0) ELSE r.t

\* The table t with the keys of S inserted, lowest index first, through
\* set_insert (keys the caller keeps alive) or insert (keys copied).
RECURSIVE BuildFrom(_, _, _)
BuildFrom(t, how, S) ==
  IF S = {} THEN t
  ELSE LET i == CHOOSE x \in S : \A y \in S : x <= y
           r == IF how = "set_insert" THEN set_insert(t, StablePtr(i))
                ELSE insert(t, IF t.tails.is_some THEN StablePtr(i) ELSE TransientPtr(i))
       IN BuildFrom(Filled(r), how, S \ {i})

\* The keys of the tables merged in: the empty key, an inline key and the two
\* kinds of table4 key.
OtherKeyIds == {KeyId(<<>>), KeyId(<<1>>), KeyId(<<1, 0>>), KeyId(Rep(25, 1))}

\* The tables a caller passes as other: up to MaxOtherKeys keys, then possibly
\* the tail list enabled and one record appended to it.
OtherTables ==
  {LET t == BuildFrom(with_capacity(InitCapacity), how, S)
   IN IF tk = 0 THEN t ELSE BuildFrom(enable_tail_array(t), how, {tk}) :
     how \in {"set_insert", "insert"},
     S \in {X \in SUBSET OtherKeyIds : Cardinality(X) <= MaxOtherKeys},
     tk \in {0, KeyId(Rep(9, 1))}}

SetInsert(i) ==
  /\ ops < MaxSetOps
  /\ LET r == set_insert(ht, StablePtr(i))
     IN Called("set_insert", i, r, FALSE)

SetMerge(other) ==
  /\ ops < MaxSetOps
  /\ ht' = set_merge(ht, other)
  /\ twin' = Result(other, "None", NoSlot)
  /\ last' = [op |-> "set_merge", key |-> 0, res |-> "None", slot |-> NoSlot,
              prior |-> {}, tail |-> ht.tails.is_some]
  /\ ops' = ops + 1
  /\ UNCHANGED <<log, asyncVars>>

Get(i) ==
  /\ ops < MaxSetOps
  /\ LET r == get(ht, TransientPtr(i))
     IN /\ ht' = r.t
        /\ last' = [op |-> "get", key |-> i, res |-> IF r.some THEN "Some" ELSE "None",
                    slot |-> r.slot, prior |-> SlotsWithKey(KeyList[i]),
                    tail |-> ht.tails.is_some]
  /\ ops' = ops + 1
  /\ UNCHANGED <<log, twin, asyncVars>>

\* iter() consumed to the end.
Iterate ==
  /\ ops < MaxSetOps
  /\ LET its == Drain(ht, iter(ht))
     IN last' = [op |-> "iter", key |-> 0, res |-> "None",
                 slot |-> IF its = <<>> THEN NoSlot ELSE its[Len(its)],
                 prior |-> {}, tail |-> ht.tails.is_some]
  /\ ops' = ops + 1
  /\ UNCHANGED <<ht, log, twin, asyncVars>>

\* insert and enable_tail_array on the table used as a set.
InsertIntoSet(i) == ops < MaxSetOps /\ Insert(i)

EnableTailOnSet == ops < MaxSetOps /\ EnableTailArray

NextSet ==
  \/ \E i \in SetKeyIds : SetInsert(i)
  \/ \E i \in SetKeyIds : InsertIntoSet(i)
  \/ \E other \in OtherTables : SetMerge(other)
  \/ \E i \in SetKeyIds : Get(i)
  \/ Iterate
  \/ EnableTailOnSet

SpecSet == Init /\ [][NextSet]_vars

----------------------------------------------------------------------------
(* The borrowing caller and its twin *)

BorrowOps == {"insert_and_entry_borrowing", "insert_borrowing", "set_insert"}

\* The caller gives key i to ht through a borrowing insert, and to the twin
\* table through insert_and_entry; a new slot is written before the next call.
BorrowInsert(op, i) ==
  /\ ops < MaxBorrowOps
  /\ LET r == CASE op = "insert_and_entry_borrowing" ->
                      insert_and_entry_borrowing(ht, StablePtr(i))
                 [] op = "insert_borrowing" -> insert_borrowing(ht, StablePtr(i))
                 [] OTHER -> set_insert(ht, StablePtr(i))
         q == insert_and_entry(twin.t, IF twin.t.tails.is_some THEN StablePtr(i)
                                       ELSE TransientPtr(i))
     IN /\ CalledOn(op, i, r, FALSE)
        /\ twin' = Result(Filled(q), q.res, q.slot)
  /\ UNCHANGED asyncVars

\* enable_tail_array() on both tables.
BorrowEnableTail ==
  /\ ops < MaxBorrowOps
  /\ ht' = enable_tail_array(ht)
  /\ twin' = Result(enable_tail_array(twin.t), "None", NoSlot)
  /\ last' = [op |-> "enable_tail_array", key |-> 0, res |-> "None", slot |-> NoSlot,
              prior |-> {}, tail |-> ht.tails.is_some]
  /\ ops' = ops + 1
  /\ UNCHANGED <<log, asyncVars>>

NextBorrow ==
  \/ \E op \in BorrowOps, i \in KeyIds : BorrowInsert(op, i)
  \/ BorrowEnableTail

SpecBorrow == Init /\ [][NextBorrow]_vars

----------------------------------------------------------------------------
(* InputPort and OutputPort: the two ends of a connection, sharing its state *)

InputPort_has_data(p) == p.data # <<>>

\* pull_data(): the Result<DataBlock> taken, the data and need flags cleared.
InputPort_pull_data(p) ==
  [port |-> [p EXCEPT !.data = <<>>, !.need = FALSE], data |-> p.data[1]]

InputPort_is_finished(p) == p.finished /\ p.data = <<>>

InputPort_set_need_data(p) == [p EXCEPT !.need = TRUE]

InputPort_set_not_need_data(p) == [p EXCEPT !.need = FALSE]

InputPort_finish(p) == [p EXCEPT !.finished = TRUE]

OutputPort_is_finished(p) == p.finished

OutputPort_can_push(p) == p.need /\ p.data = <<>>

OutputPort_push_data(p, d) == [p EXCEPT !.data = <<d>>]

OutputPort_finish(p) == [p EXCEPT !.finished = TRUE]

\* What travels on a connection: Ok(block) or an Err.
OkData(b) == [ok |-> TRUE, block |-> b]

ErrData == [ok |-> FALSE]

----------------------------------------------------------------------------
(* AsyncTransformer *)

\* The block the upstream processor sends as its n-th.
DataBlock(n) == [id |-> n, done |-> FALSE]

\* What T::transform returns for a block when it returns Ok.
transform(b) == [b EXCEPT !.done = TRUE]

\* What event() leaves and returns: the processor, its ports, the Event (or
\* "Err"), and the block it pulled from the input port, if any.
EventResult(p, in, out, ev, got) ==
  [proc |-> p, input |-> in, output |-> out, ev |-> ev, pulled |-> got]

\* finish_input() that does not look at called_on_finish.
finish_input_unchecked(p, in, out) ==
  EventResult(p, InputPort_finish(in), out, "Finished", <<>>)

finish_input(p, in, out) ==
  IF ~p.called_on_finish
    THEN EventResult(p, in, out, "Sync", <<>>)
    ELSE EventResult(p, InputPort_finish(in), out, "Finished", <<>>)

not_need_data(p, in, out) ==
  EventResult(p, InputPort_set_not_need_data(in), out, "NeedConsume", <<>>)

\* pull_data(): "self.input.pull_data().unwrap()?" returns the Err it pulled.
pull_data(p, in, out) ==
  IF InputPort_has_data(in)
    THEN LET r == InputPort_pull_data(in)
         IN IF r.data.ok
              THEN EventResult([p EXCEPT !.input_data = <<r.data.block>>],
                               r.port, out, "Sync", <<r.data.block>>)
              ELSE EventResult(p, r.port, out, "Err", <<>>)
  ELSE IF InputPort_is_finished(in)
    THEN IF ~p.called_on_finish
           THEN EventResult(p, in, out, "Sync", <<>>)
           ELSE EventResult(p, in, OutputPort_finish(out), "Finished", <<>>)
  ELSE EventResult(p, InputPort_set_need_data(in), out, "NeedData", <<>>)

\* event() that pulls whenever output_data is None, an input block held or not.
event_pull_always(p, in, out) ==
  IF ~p.called_on_start THEN EventResult(p, in, out, "Async", <<>>)
  ELSE IF OutputPort_is_finished(out) THEN finish_input(p, in, out)
  ELSE IF ~OutputPort_can_push(out) THEN not_need_data(p, in, out)
  ELSE IF p.output_data = <<>> THEN pull_data(p, in, out)
  ELSE EventResult([p EXCEPT !.output_data = <<>>], in,
                   OutputPort_push_data(out, OkData(p.output_data[1])),
                   "NeedConsume", <<>>)

event(p, in, out) ==
  IF ~p.called_on_start THEN EventResult(p, in, out, "Async", <<>>)
  ELSE IF OutputPort_is_finished(out) THEN finish_input(p, in, out)
  ELSE IF ~OutputPort_can_push(out) THEN not_need_data(p, in, out)
  ELSE IF p.output_data = <<>>
    THEN IF p.input_data # <<>> THEN EventResult(p, in, out, "Async", <<>>)
         ELSE pull_data(p, in, out)
  ELSE EventResult([p EXCEPT !.output_data = <<>>], in,
                   OutputPort_push_data(out, OkData(p.output_data[1])),
                   "NeedConsume", <<>>)

\* What async_process() leaves and returns, and the callback of T it called.
AsyncResult(p, call, res) == [proc |-> p, call |-> call, res |-> res]

ResultOf(ok) == IF ok THEN "Ok" ELSE "Err"

\* async_process() that sets called_on_start only when on_start returned Ok.
async_process_flag_late(p, ok) ==
  IF ~p.called_on_start
    THEN AsyncResult([p EXCEPT !.called_on_start = ok], "on_start", ResultOf(ok))
  ELSE IF p.input_data # <<>>
    THEN AsyncResult([p EXCEPT !.input_data = <<>>,
                               !.output_data = IF ok THEN <<transform(p.input_data[1])>>
                                               ELSE @],
                     "transform", ResultOf(ok))
  ELSE IF ~p.called_on_finish
    THEN AsyncResult([p EXCEPT !.called_on_finish = TRUE], "on_finish", ResultOf(ok))
  ELSE AsyncResult(p, "none", "Ok")

\* async_process() that reads input_data and leaves it in place.
async_process_keep_input(p, ok) ==
  IF ~p.called_on_start
    THEN AsyncResult([p EXCEPT !.called_on_start = TRUE], "on_start", ResultOf(ok))
  ELSE IF p.input_data # <<>>
    THEN AsyncResult([p EXCEPT !.output_data = IF ok THEN <<transform(p.input_data[1])>>
                                               ELSE @],
                     "transform", ResultOf(ok))
  ELSE IF ~p.called_on_finish
    THEN AsyncResult([p EXCEPT !.called_on_finish = TRUE], "on_finish", ResultOf(ok))
  ELSE AsyncResult(p, "none", "Ok")

\* async_process(), ok telling whether the callback of T it calls returns Ok.
async_process(p, ok) ==
  IF ~p.called_on_start
    THEN AsyncResult([p EXCEPT !.called_on_start = TRUE], "on_start", ResultOf(ok))
  ELSE IF p.input_data # <<>>
    THEN AsyncResult([p EXCEPT !.input_data = <<>>,
                               !.output_data = IF ok THEN <<transform(p.input_data[1])>>
                                               ELSE @],
                     "transform", ResultOf(ok))
  ELSE IF ~p.called_on_finish
    THEN AsyncResult([p EXCEPT !.called_on_finish = TRUE], "on_finish", ResultOf(ok))
  ELSE AsyncResult(p, "none", "Ok")

\* The number of calls of a callback, after one more call of it if it is
\* the one just called.
Count(n, call, name) == IF call = name THEN n + 1 ELSE n

\* The pipeline calls event().
Event ==
  /\ LET r == event(proc, input, output)
     IN /\ proc' = r.proc
        /\ input' = r.input
        /\ output' = r.output
        /\ calls' = [calls EXCEPT
                       !.op = "event", !.ev = r.ev, !.call = "none",
                       !.res = IF r.ev = "Err" THEN "Err" ELSE "Ok",
                       !.pulled = @ \o [j \in 1..Len(r.pulled) |-> r.pulled[j].id],
                       !.pushed = IF r.output.data # output.data
                                    THEN Append(@, proc.output_data[1].id) ELSE @]
  /\ UNCHANGED tableVars

\* The pipeline calls async_process() and awaits it.
AsyncProcess ==
  /\ \E ok \in BOOLEAN :
       LET r == async_process(proc, ok)
       IN /\ r.call = "none" => ok
          /\ proc' = r.proc
          /\ calls' = [calls EXCEPT
                         !.op = "async_process", !.call = r.call, !.res = r.res,
                         !.asynced = TRUE,
                         !.on_start = Count(@, r.call, "on_start"),
                         !.on_start_res = IF r.call = "on_start" THEN r.res ELSE @,
                         !.on_finish = Count(@, r.call, "on_finish"),
                         !.transform = IF r.call = "transform"
                                         THEN Append(@, proc.input_data[1].id) ELSE @,
                         !.results = IF r.call = "transform" /\ r.res = "Ok"
                                       THEN Append(@, proc.input_data[1].id) ELSE @]
  /\ UNCHANGED <<input, output, tableVars>>

\* The upstream processor pushes its next block, or an error, when asked.
UpstreamPush ==
  /\ calls.sent < MaxBlocks
  /\ ~input.finished
  /\ OutputPort_can_push(input)
  /\ \E ok \in BOOLEAN :
       input' = OutputPort_push_data(input, IF ok THEN OkData(DataBlock(calls.sent + 1))
                                            ELSE ErrData)
  /\ calls' = [calls EXCEPT !.op = "upstream", !.sent = @ + 1]
  /\ UNCHANGED <<proc, output, tableVars>>

\* The upstream processor finishes its output port.
UpstreamFinish ==
  /\ ~input.finished
  /\ input' = OutputPort_finish(input)
  /\ calls' = [calls EXCEPT !.op = "upstream"]
  /\ UNCHANGED <<proc, output, tableVars>>

\* The downstream processor asks for data.
DownstreamNeed ==
  /\ ~output.finished
  /\ ~output.need
  /\ output' = InputPort_set_need_data(output)
  /\ calls' = [calls EXCEPT !.op = "downstream"]
  /\ UNCHANGED <<proc, input, tableVars>>

\* The downstream processor pulls what was pushed.
DownstreamPull ==
  /\ InputPort_has_data(output)
  /\ output' = InputPort_pull_data(output).port
  /\ calls' = [calls EXCEPT !.op = "downstream"]
  /\ UNCHANGED <<proc, input, tableVars>>

\* The downstream processor finishes its input port.
DownstreamFinish ==
  /\ ~output.finished
  /\ output' = InputPort_finish(output)
  /\ calls' = [calls EXCEPT !.op = "downstream"]
  /\ UNCHANGED <<proc, input, tableVars>>

NextAsync ==
  \/ Event
  \/ AsyncProcess
  \/ UpstreamPush
  \/ UpstreamFinish
  \/ DownstreamNeed
  \/ DownstreamPull
  \/ DownstreamFinish

SpecAsync == Init /\ [][NextAsync]_vars

----------------------------------------------------------------------------
(* Properties *)

\* The sub-tables (0..4) holding an entry whose key() is b.
TablesHolding(t, b) ==
  {tbl \in 0..4 : \E idx \in 1..Len(EntriesOf(t, tbl)) : key_of(t, Slot(tbl, idx)) = b}

\* classify(k) as the specification gives it.
classify(b) ==
  IF Len(b) = 0 THEN 0
  ELSE IF b[Len(b)] = 0 THEN 4
  ELSE IF Len(b) <= 8 THEN 1
  ELSE IF Len(b) <= 16 THEN 2
  ELSE IF Len(b) <= 24 THEN 3
  ELSE 4

\* C1: with the tail list disabled, every entry of every sub-table holds a key
\* that classify sends to that sub-table, and every key inserted is held by
\* exactly one sub-table, the one classify names.
C1_Routing ==
  ~ht.tails.is_some =>
    /\ \A tbl \in 0..4 : \A idx \in 1..Len(EntriesOf(ht, tbl)) :
         classify(key_of(ht, Slot(tbl, idx))) = tbl
    /\ \A s \in DOMAIN log :
         /\ s.tbl = classify(log[s].key)
         /\ TablesHolding(ht, log[s].key) = {classify(log[s].key)}

\* A key of length 8 in table1, one of length 9 in table2 and a short key
\* ending in 0x00 in table4.
C1_Witness ==
  /\ ~ht.tails.is_some
  /\ TablesHolding(ht, Rep(8, 1)) = {1}
  /\ TablesHolding(ht, Rep(9, 1)) = {2}
  /\ TablesHolding(ht, <<1, 0>>) = {4}

\* What "first insert Ok, later inserts Err with the first one's slot" asks of
\* the last operation, an insert of a key logged in the slots last.prior.
DuplicateSemantics ==
  IF last.prior = {}
    THEN last.res = "Ok"
    ELSE last.res = "Err" /\ last.prior = {last.slot}

\* C2 as stated: every insert of a key returns Ok the first time and Err with
\* the first insert's slot every later time, in any mode.
C2_Original == last.op \in InsertOps => DuplicateSemantics

\* C2: while the tail list is disabled, and for the zero-length key in any
\* mode, the first insert of a key since the last clear() returns Ok and every
\* later insert of a byte-equal key returns Err with the first insert's slot.
C2_Duplicate ==
  (last.op \in InsertOps /\ (~last.tail \/ KeyList[last.key] = <<>>)) => DuplicateSemantics

\* A duplicate of a table4 key found through the copy kept in the arena.
C2_Witness ==
  /\ last.op = "insert_and_entry"
  /\ ~last.tail
  /\ last.res = "Err"
  /\ last.slot = Slot(4, 2)
  /\ Len(KeyList[last.key]) = 25

\* The sum of the lengths of the keys in a set.
RECURSIVE SumLen(_)
SumLen(S) ==
  IF S = {} THEN 0
  ELSE LET b == CHOOSE x \in S : TRUE IN Len(b) + SumLen(S \ {b})

\* The distinct keys held in table0..table4.
StoredKeys(t) ==
  UNION {{key_of(t, Slot(tbl, idx)) : idx \in 1..Len(EntriesOf(t, tbl))} : tbl \in 0..4}

\* key_size is the sum of the lengths of the distinct keys stored.
KeySizeLaw(t) == unsize_key_size(t) = SumLen(StoredKeys(t))

\* C3: an insert, of any variant and any key, made in a state where key_size
\* is the sum of the lengths of the distinct keys stored leaves it so.
C3_KeySizeLaw ==
  [][(last'.op \in InsertOps /\ KeySizeLaw(ht)) => KeySizeLaw(ht')]_vars

\* What a caller can observe after an insert returned r and 0 was written into
\* a new slot: Ok or Err, len(), key_size, get(k) for every k, and the entries
\* iter() yields.
Observable(r) ==
  LET t   == IF r.res = "Ok" THEN write(r.t, r.slot, 0) ELSE r.t
      e(i) == entry(t, StablePtr(i))
      its  == Drain(t, iter(t))
  IN [ res      |-> r.res,
       len      |-> len(t),
       key_size |-> unsize_key_size(t),
       get      |-> [i \in KeyIds |-> IF IsSome(e(i)) THEN get_of(t, e(i)) ELSE Uninit],
       iter     |-> {<<key_of(t, its[j]), get_of(t, its[j])>> : j \in 1..Len(its)} ]

\* C4: from every reachable state and for every key, insert_and_entry_with_hash
\* with the key's hash and insert_and_entry return the same outcome and leave
\* the same observable state.
C4_HashConsistency ==
  \A i \in KeyIds :
    Observable(insert_and_entry_with_hash(ht, KeyArg(i), fast_hash(KeyList[i])))
      = Observable(insert_and_entry(ht, KeyArg(i)))

\* C5: after clear(), len() is 0, key_size is 0, iter() yields nothing and the
\* arena is empty.
C5_ClearLaw ==
  last.op = "clear" =>
    /\ len(ht) = 0
    /\ unsize_key_size(ht) = 0
    /\ Drain(ht, iter(ht)) = <<>>
    /\ ht.arena = <<>>

\* get(k)/entry(k) finds an entry whose key() is b.
FoundByEntry(t, b) ==
  LET e == entry(t, StablePtr(KeyId(b)))
  IN IsSome(e) /\ key_of(t, e) = b

\* iter() yields an entry whose key() is b.
YieldedByIter(t, b) ==
  LET its == Drain(t, iter(t))
  IN \E j \in 1..Len(its) : key_of(t, its[j]) = b

\* C6 as stated: every key inserted since the last clear() is found by
\* get/entry and yielded by iter() with key() equal to it.
C6_Original ==
  \A s \in DOMAIN log : FoundByEntry(ht, log[s].key) /\ YieldedByIter(ht, log[s].key)

\* C6: every key inserted since the last clear() is yielded by iter() with
\* key() equal to it, byte for byte; if it was inserted while the tail list was
\* disabled, or is the zero-length key, get/entry finds it too.
C6_RoundTrip ==
  LET its     == Drain(ht, iter(ht))
      yielded == {key_of(ht, its[j]) : j \in 1..Len(its)}
  IN \A s \in DOMAIN log :
       /\ log[s].key \in yielded
       /\ (~log[s].tail \/ log[s].key = <<>>) => FoundByEntry(ht, log[s].key)

\* Keys of lengths 9 and 16 in table2 and a key with a 0x00 inside in table1.
C6_Witness ==
  /\ ~ht.tails.is_some
  /\ {log[s].key : s \in DOMAIN log} = {Rep(9, 1), Rep(16, 1), <<0, 2>>}
  /\ FoundByEntry(ht, Rep(16, 1))

\* The sequence s has no element twice.
NoRepeat(s) == \A i, j \in 1..Len(s) : s[i] = s[j] => i = j

\* C7 as stated: iter() yields exactly one entry per key inserted, each with
\* the last value written to its slot.
C7_Original ==
  LET its  == Drain(ht, iter(ht))
      keys == [j \in 1..Len(its) |-> key_of(ht, its[j])]
  IN /\ NoRepeat(keys)
     /\ {keys[j] : j \in 1..Len(its)} = {log[s].key : s \in DOMAIN log}
     /\ \A j \in 1..Len(its) : get_of(ht, its[j]) = log[its[j]].val

\* C7: iter() yields exactly one entry per slot handed out by an Ok insert
\* (the entries of table0..table4 and the tail records), each with the key
\* inserted there and the last value written there; while there is no tail
\* list no key is yielded twice.
C7_Iteration ==
  LET its  == Drain(ht, iter(ht))
      keys == [j \in 1..Len(its) |-> key_of(ht, its[j])]
  IN /\ NoRepeat(its)
     /\ {its[j] : j \in 1..Len(its)} = DOMAIN log
     /\ \A j \in 1..Len(its) :
          keys[j] = log[its[j]].key /\ get_of(ht, its[j]) = log[its[j]].val
     /\ ~ht.tails.is_some => NoRepeat(keys)

\* Two entries in two sub-tables, one of them updated after its insert.
C7_Witness ==
  /\ Len(Drain(ht, iter(ht))) = 2
  /\ ~ht.tails.is_some
  /\ \E s \in DOMAIN log : log[s].val = 1 /\ s.tbl = 3
  /\ \E s \in DOMAIN log : s.tbl = 0

\* The pointer p refers to a slice of the arena.
InArena(t, p) == p.region = "arena" /\ p.idx \in 1..Len(t.arena)

C9_ArenaStable ==
  \A s \in DOMAIN log :
    s.tbl = 4 =>
      /\ s.idx <= Len(ht.table4.entries)
      /\ ht.table4.entries[s.idx].key.ptr.region # "transient"
      /\ key_of(ht, s) = log[s].key

\* Two keys copied into the arena, table4 grown since the first, and a third
\* insert made afterwards.
C9_Witness ==
  /\ Len(ht.arena) = 2
  /\ ht.table4.cap > InitCapacity
  /\ last.op \in InsertOps
  /\ last.slot.tbl # 4
  /\ \A s \in DOMAIN log : s.tbl = 4 => key_of(ht, s) = log[s].key

\* The records of the tail list, without their values.
TailKeys(t) == [j \in 1..Len(t.tails.entries) |-> t.tails.entries[j].key]

\* C10: while the tail list is enabled, an insert of a non-empty key through
\* any variant returns Ok with a new record appended to the tail list, whose
\* key() is the key inserted, and leaves table1..table4 as they were; an insert
\* of the zero-length key leaves the tail list and table1..table4 as they were
\* and returns Ok from table0 if table0 was empty, Err with its entry if not.
C10_TailMode ==
  [][ (ht.tails.is_some /\ last'.op \in InsertOps) =>
        /\ ht'.table1 = ht.table1 /\ ht'.table2 = ht.table2
        /\ ht'.table3 = ht.table3 /\ ht'.table4 = ht.table4
        /\ IF KeyList[last'.key] # <<>>
             THEN /\ last'.res = "Ok"
                  /\ last'.slot = Slot(5, Len(ht.tails.entries) + 1)
                  /\ Len(ht'.tails.entries) = Len(ht.tails.entries) + 1
                  /\ SubSeq(TailKeys(ht'), 1, Len(ht.tails.entries)) = TailKeys(ht)
                  /\ key_of(ht', last'.slot) = KeyList[last'.key]
                  /\ ht'.table0.entries = ht.table0.entries
             ELSE /\ ht'.tails = ht.tails
                  /\ last'.slot = Slot(0, 1)
                  /\ Len(ht'.table0.entries) = 1
                  /\ last'.res = IF Len(ht.table0.entries) = 0 THEN "Ok" ELSE "Err"
    ]_vars

\* With the tail list enabled: a record appended by insert_and_entry_borrowing
\* after the zero-length key went to table0.
C10_Witness ==
  /\ ht.tails.is_some
  /\ last.op = "insert_and_entry_borrowing"
  /\ last.tail
  /\ last.slot = Slot(5, 1)
  /\ Len(ht.table0.entries) = 1
  /\ Len(ht.table1.entries) = 0

\* The tail records iter() yields whose key() is b.
TailYields(t, b) ==
  LET its == Drain(t, iter(t))
  IN {its[j] : j \in {n \in 1..Len(its) : its[n].tbl = 5 /\ key_of(t, its[n]) = b}}

\* C11: while the tail list is enabled, every insert of a non-empty key, a key
\* already in the tail list included, returns Ok with a slot no earlier insert
\* returned, and iter() then visits one more tail record with that key than
\* before, the earlier ones still among them.
C11_TailNoDedup ==
  [][ (ht.tails.is_some /\ last'.op \in InsertOps /\ KeyList[last'.key] # <<>>) =>
        LET b == KeyList[last'.key]
        IN /\ last'.res = "Ok"
           /\ last'.slot \notin DOMAIN log
           /\ TailYields(ht', b) = TailYields(ht, b) \cup {last'.slot}
           /\ Cardinality(TailYields(ht', b)) = Cardinality(TailYields(ht, b)) + 1
    ]_vars

\* The same key ending in 0x00 inserted twice into the tail list: two records.
C11_Witness ==
  /\ last.op \in InsertOps
  /\ last.tail
  /\ last.res = "Ok"
  /\ TailYields(ht, <<1, 0>>) = {Slot(5, 1), Slot(5, 2)}

\* The slots of table0..table4 logged with the key of index i.
HeldSlots(i) == {s \in DOMAIN log : s.tbl \in 0..4 /\ log[s].key = KeyList[i]}

\* C12: entry/get and entry_mut/get_mut of a key return Some only with an
\* entry of table0..table4 that holds the key; a non-empty key inserted only
\* while the tail list was enabled is reported as None by both.
C12_LookupSkipsTail ==
  \A i \in KeyIds :
    LET e  == entry(ht, StablePtr(i))
        em == entry_mut(ht, StablePtr(i))
    IN /\ IsSome(e) => (e.tbl \in 0..4 /\ e \in HeldSlots(i))
       /\ IsSome(em) => (em.tbl \in 0..4 /\ em \in HeldSlots(i))
       /\ (KeyList[i] # <<>> /\ \A s \in SlotsWithKey(KeyList[i]) : log[s].tail)
            => (~IsSome(e) /\ ~IsSome(em))

\* A key held by the tail list only is not found, next to a key of table4 that
\* is.
C12_Witness ==
  /\ ht.tails.is_some
  /\ SlotsWithKey(Rep(25, 1)) = {Slot(5, 1)}
  /\ ~IsSome(entry(ht, StablePtr(KeyId(Rep(25, 1)))))
  /\ entry(ht, StablePtr(KeyId(<<1, 0>>))) = Slot(4, 1)

\* The sub-tables of the slots in s never go down.
Grouped(s) == \A i, j \in 1..Len(s) : i < j => s[i].tbl <= s[j].tbl

\* The sub-iterators of an iterator over t with the flags of live set to Some.
IterOver(t, live) ==
  [tbl \in 0..5 |-> [is_some |-> (tbl \in live /\ (tbl < 5 \/ t.tails.is_some)), pos |-> 0]]

\* C13: iter() yields the entries of table0, then table1, table2, table3,
\* table4, then the tail records: no entry of an earlier group follows one of
\* a later group.  The mutable iterator does the same, with all its
\* sub-iterators Some and with any one of them None.
C13_IterOrder ==
  /\ Grouped(Drain(ht, iter(ht)))
  /\ Grouped(DrainMut(ht, IterOver(ht, 0..5)))
  /\ \A none \in 0..5 : Grouped(DrainMut(ht, IterOver(ht, (0..5) \ {none})))

\* Keys inserted into table4, then table3, then table0 are yielded in the
\* opposite order.
C13_Witness ==
  /\ last.op \in InsertOps
  /\ last.res = "Ok"
  /\ last.slot = Slot(0, 1)
  /\ Len(Drain(ht, iter(ht))) = 3
  /\ [j \in 1..3 |-> Drain(ht, iter(ht))[j].tbl] = <<0, 3, 4>>

\* The lookup of the key logged in slot s gives s, with the key and the value
\* logged there.
OwnEntry(t, s) ==
  /\ entry(t, StablePtr(KeyId(log[s].key))) = s
  /\ key_of(t, s) = log[s].key
  /\ get_of(t, s) = log[s].val

\* C14: keys inserted into an empty table without a tail list: an insert of a
\* key that differs from every key inserted before, be it by a trailing 0x00,
\* in length only or in one byte only, returns Ok; no two slots hold the same
\* key; len() counts one entry per distinct key; and get of every key inserted
\* returns its own slot and value.
C14_NoCollision ==
  /\ (last.op \in InsertOps /\ last.prior = {}) =>
        (last.res = "Ok" /\ last.slot \in DOMAIN log)
  /\ \A s1, s2 \in DOMAIN log : log[s1].key = log[s2].key => s1 = s2
  /\ len(ht) = Cardinality(DOMAIN log)
  /\ \A s \in DOMAIN log : OwnEntry(ht, s)

\* A 16-byte key inserted twice in table2 and the same bytes followed by 0x00
\* in table4, each with its own value.
C14_Witness ==
  /\ DOMAIN log = {Slot(2, 1), Slot(4, 1)}
  /\ log[Slot(2, 1)] = [key |-> Rep(16, 1), val |-> 1, tail |-> FALSE]
  /\ log[Slot(4, 1)] = [key |-> Rep(16, 1) \o <<0>>, val |-> 0, tail |-> FALSE]
  /\ OwnEntry(ht, Slot(2, 1))
  /\ OwnEntry(ht, Slot(4, 1))

\* The sum of the values logged after a step, over the slots S.
RECURSIVE SumVals(_)
SumVals(S) ==
  IF S = {} THEN 0
  ELSE LET s == CHOOSE x \in S : TRUE IN log'[s].val + SumVals(S \ {s})

\* C15: with the tail list disabled and a caller that writes 0 on Ok and adds
\* 1 on Err, an insert of a key that get does not find returns Ok, grows len()
\* by 1 and leaves get(k) = 0; an insert of a key that get finds returns Err
\* with that entry, leaves len() alone and leaves get(k) one higher; the
\* values of the other keys stay.  So the values add up to the number of Err
\* returned, and a key inserted n times on its own has get(k) = n - 1.
C15_Accumulate ==
  [][ last'.op \in InsertOps =>
        LET k  == StablePtr(last'.key)
            e  == entry(ht, k)
            e2 == entry(ht', k)
        IN /\ IF ~IsSome(e)
                THEN /\ last'.res = "Ok"
                     /\ len(ht') = len(ht) + 1
                     /\ IsSome(e2) /\ e2 = last'.slot
                     /\ get_of(ht', e2) = 0
                ELSE /\ last'.res = "Err"
                     /\ len(ht') = len(ht)
                     /\ e2 = e /\ e = last'.slot
                     /\ get_of(ht', e2) = get_of(ht, e) + 1
           /\ \A s \in DOMAIN log :
                log[s].key # KeyList[last'.key] =>
                  (entry(ht', StablePtr(KeyId(log[s].key))) = s
                     /\ get_of(ht', s) = get_of(ht, s))
           /\ SumVals(DOMAIN log') = ops' - len(ht')
           /\ \A s \in DOMAIN log' :
                DOMAIN log' = {s} => get_of(ht', s) = ops' - 1
    ]_vars

\* A 25-byte key inserted three times: one Ok, two Err, value 2.
C15_Witness ==
  /\ ops = 3
  /\ last.res = "Err"
  /\ DOMAIN log = {Slot(4, 1)}
  /\ log[Slot(4, 1)].key = Rep(25, 1)
  /\ len(ht) = 1
  /\ get_of(ht, entry(ht, StablePtr(KeyId(Rep(25, 1))))) = 2

\* C16: len() is the number of entries of table0..table4: the sum of their
\* entry counts, the number of slots of table0..table4 handed out since the
\* last clear(), and the number of entries iter() yields from them; tail
\* records are not counted.
C16_LenSum ==
  LET its == Drain(ht, iter(ht))
  IN /\ len(ht) = Len(ht.table0.entries) + Len(ht.table1.entries)
                    + Len(ht.table2.entries) + Len(ht.table3.entries)
                    + Len(ht.table4.entries)
     /\ len(ht) = Cardinality({s \in DOMAIN log : s.tbl \in 0..4})
     /\ len(ht) = Cardinality({j \in 1..Len(its) : its[j].tbl \in 0..4})

\* One entry in table0..table4 and one tail record: len() is 1.
C16_Witness ==
  /\ ht.tails.is_some
  /\ Len(ht.tails.entries) = 1
  /\ Cardinality(DOMAIN log) = 2
  /\ len(ht) = 1

\* C17: for every key, entry/get (and entry_mut/get_mut) returns Some exactly
\* when an entry of table0..table4 holds the key, and then that entry, with
\* the key and the last value written; a key not inserted since the last
\* clear() gives None, also when a stored key has the same hash; the lookup
\* never runs into unreachable!().
C17_GetIffPresent ==
  \A i \in KeyIds :
    LET e == entry(ht, StablePtr(i))
    IN /\ IsSome(e) <=> HeldSlots(i) # {}
       /\ IsSome(e) =>
            /\ HeldSlots(i) = {e}
            /\ key_of(ht, e) = KeyList[i]
            /\ key_of(ht, e) # Unreachable
            /\ get_of(ht, e) = log[e].val
       /\ SlotsWithKey(KeyList[i]) = {} => ~IsSome(e)
       /\ entry_mut(ht, StablePtr(i)) = e

\* table4 holds a key; another key with the same hash, never inserted, is not
\* found.
C17_Witness ==
  /\ entry(ht, StablePtr(KeyId(<<1, 0>>))) = Slot(4, 1)
  /\ fast_hash(<<1, 0>>) = fast_hash(Rep(16, 1) \o <<0>>)
  /\ SlotsWithKey(Rep(16, 1) \o <<0>>) = {}
  /\ ~IsSome(entry(ht, StablePtr(KeyId(Rep(16, 1) \o <<0>>))))
  /\ len(ht) = 3

\* C18: table0 holds at most one entry; the first insert of the zero-length
\* key since the last clear() returns Ok and every later one Err, always with
\* the one slot of table0, in any mode; from then on len() counts it once,
\* get(b"") returns the last value written and iter() yields exactly one
\* entry with the empty key; before, get(b"") is None and iter() yields none.
C18_EmptyKey ==
  LET e    == entry(ht, StablePtr(KeyId(<<>>)))
      its  == Drain(ht, iter(ht))
      empt == {j \in 1..Len(its) : key_of(ht, its[j]) = <<>>}
  IN /\ Len(ht.table0.entries) <= 1
     /\ (last.op \in InsertOps /\ KeyList[last.key] = <<>>) =>
          (DuplicateSemantics /\ last.slot = Slot(0, 1))
     /\ IF SlotsWithKey(<<>>) # {}
          THEN /\ SlotsWithKey(<<>>) = {Slot(0, 1)}
               /\ Table0_len(ht.table0) = 1
               /\ len(ht) = 1 + Table0_len(ht.table1) + Table0_len(ht.table2)
                               + Table0_len(ht.table3) + Table0_len(ht.table4)
               /\ e = Slot(0, 1)
               /\ get_of(ht, e) = log[e].val
               /\ Cardinality(empt) = 1
          ELSE /\ Table0_len(ht.table0) = 0
               /\ ~IsSome(e)
               /\ empt = {}

\* The zero-length key inserted before and after the tail list was enabled:
\* Err the second time, and the value it then got.
C18_Witness ==
  /\ last.op \in InsertOps
  /\ KeyList[last.key] = <<>>
  /\ last.tail
  /\ last.res = "Err"
  /\ get_of(ht, Slot(0, 1)) = 1

\* C19: at clear(), for every key held before it (in table0..table4 or in the
\* tail list), an insert into the cleared table returns Ok and, the value
\* written, a second insert returns Err with the same slot; and the insert a
\* caller makes right after clear() returns Ok.
C19_ClearReuse ==
  [][ /\ last'.op = "clear" =>
           \A s \in DOMAIN log :
             LET k  == TransientPtr(KeyId(log[s].key))
                 r1 == insert(ht', k)
                 r2 == insert(write(r1.t, r1.slot, 0), k)
             IN r1.res = "Ok" /\ r2.res = "Err" /\ r2.slot = r1.slot
      /\ (last.op = "clear" /\ last'.op \in InsertOps) => last'.res = "Ok"
    ]_vars

\* The 25-byte key inserted, the table cleared, the key inserted again with Ok:
\* key_size, which clear() leaves alone, counts both copies.
C19_Witness ==
  /\ ops = 3
  /\ last.op \in InsertOps
  /\ last.res = "Ok"
  /\ KeyList[last.key] = Rep(25, 1)
  /\ len(ht) = 1
  /\ unsize_key_size(ht) = 50

\* C20: enable_tail_array() on a table whose tail list is enabled changes no
\* field of the table: the tail records are the same and iter() yields what
\* it yielded before.
C20_EnableIdempotent ==
  [][ (last'.op = "enable_tail_array" /\ ht.tails.is_some) =>
        /\ ht' = ht
        /\ ht'.tails.entries = ht.tails.entries
        /\ Drain(ht', iter(ht')) = Drain(ht, iter(ht))
        /\ \A j \in 1..Len(ht.tails.entries) :
             key_of(ht', Slot(5, j)) = log[Slot(5, j)].key
    ]_vars

\* enable_tail_array() called again after a record was appended.
C20_Witness ==
  /\ last.op = "enable_tail_array"
  /\ last.tail
  /\ Len(ht.tails.entries) = 1
  /\ Drain(ht, iter(ht)) = << Slot(5, 1) >>

\* C21: self.set_merge(other) leaves in table0..table4 of self exactly the
\* keys self held and the keys table0..table4 of other hold, each once and in
\* the sub-table its class names; table0 of self is populated iff it was or
\* table0 of other is; the tail list of self stays as it was and the tail
\* records of other are not taken over.
C21_SetMerge ==
  [][ last'.op = "set_merge" =>
        LET other == twin'.t
        IN /\ other \in OtherTables
           /\ ht' = set_merge(ht, other)
           /\ StoredKeys(ht') = StoredKeys(ht) \cup StoredKeys(other)
           /\ len(ht) = Cardinality(StoredKeys(ht)) =>
                len(ht') = Cardinality(StoredKeys(ht'))
           /\ \A b \in StoredKeys(ht') : TablesHolding(ht', b) = {classify(b)}
           /\ Len(ht'.table0.entries) = 1 <=>
                (Len(ht.table0.entries) = 1 \/ Len(other.table0.entries) = 1)
           /\ ht'.tails = ht.tails
           /\ \A j \in 1..Len(other.tails.entries) :
                LET b == key_of(other, Slot(5, j))
                IN b \notin StoredKeys(ht) \cup StoredKeys(other) => b \notin StoredKeys(ht')
    ]_vars

\* A merge that put the zero-length key and a second table4 key, held in the
\* arena of other, next to the table4 key self had.
C21_Witness ==
  /\ last.op = "set_merge"
  /\ StoredKeys(ht) = {<<>>, <<1, 0>>, Rep(25, 1)}
  /\ Len(ht.table4.entries) = 2
  /\ ht.table4.entries[1].key.ptr.region = "stable"
  /\ ht.table4.entries[2].key.ptr.region = "other_arena"

\* C24: self.set_merge(other), made on tables whose key_size is the sum of the
\* lengths of their keys, leaves key_size of self equal to the sum of the
\* lengths of the keys self then holds.
C24_MergeKeySize ==
  [][ (last'.op = "set_merge" /\ KeySizeLaw(ht) /\ KeySizeLaw(twin'.t))
        => KeySizeLaw(ht')
    ]_vars

\* C22: a key of length 1..24 whose last byte is not 0x00 is stored in table1,
\* table2 or table3 by its length, and the key() of the stored entry is the
\* key inserted, with its length, also when other bytes of it are 0x00: the
\* length is base + i + 1 with i the largest index of a non-zero byte of the
\* last packed word and base 0, 8 or 16; the last packed word of a stored
\* inline key is never zero.
C22_InlineLength ==
  \A s \in DOMAIN log :
    LET b == log[s].key
    IN /\ (Len(b) \in 1..24 /\ b[Len(b)] # 0) <=> s.tbl \in 1..3
       /\ s.tbl \in 1..3 =>
            LET k == EntriesOf(ht, s.tbl)[s.idx].key
            IN /\ s.tbl = ((Len(b) - 1) \div 8) + 1
               /\ Len(k) = s.tbl
               /\ ~InlineKey_is_zero(k)
               /\ 8 * (s.tbl - 1) + ScanLast(k[s.tbl]) + 1 = Len(b)
               /\ key_of(ht, s) = b
               /\ Len(key_of(ht, s)) = Len(b)

\* A 24-byte key whose bytes are 0x00 but the first and the last, in table3.
C22_Witness ==
  /\ DOMAIN log = {Slot(3, 1)}
  /\ log[Slot(3, 1)].key = [i \in 1..24 |-> IF i \in {1, 24} THEN 3 ELSE 0]
  /\ key_of(ht, Slot(3, 1)) = log[Slot(3, 1)].key
  /\ ht.table3.entries[1].key[2] = Rep(8, 0)

\* The insert variants that copy a table4 key into the arena.
CopyingOps == {"insert", "insert_and_entry", "insert_and_entry_with_hash"}

\* C23: an insert that returns Err leaves len(), key_size and the arena as
\* they were (no arena copy is made), and an insert that returns Ok with an
\* entry of table4 appends exactly one copy of the key to the arena and adds
\* len(k) to key_size.
C23_InsertFrame ==
  [][ last'.op \in CopyingOps =>
        /\ last'.res = "Err" =>
             /\ len(ht') = len(ht)
             /\ unsize_key_size(ht') = unsize_key_size(ht)
             /\ ht'.arena = ht.arena
        /\ (last'.res = "Ok" /\ last'.slot.tbl = 4) =>
             /\ ht'.arena = Append(ht.arena, KeyList[last'.key])
             /\ unsize_key_size(ht') = unsize_key_size(ht) + Len(KeyList[last'.key])
    ]_vars

\* C25: with the tail list enabled, an insert of a non-empty key appends one
\* tail record and leaves len(), key_size, the arena and table0..table4 as
\* they were; iter() then yields len() entries plus one per tail record.
C25_TailFrame ==
  [][ (last'.op \in InsertOps /\ ht.tails.is_some /\ KeyList[last'.key] # <<>>) =>
        /\ len(ht') = len(ht)
        /\ unsize_key_size(ht') = unsize_key_size(ht)
        /\ ht'.arena = ht.arena
        /\ \A tbl \in 0..4 : EntriesOf(ht', tbl) = EntriesOf(ht, tbl)
        /\ Len(ht'.tails.entries) = Len(ht.tails.entries) + 1
        /\ Len(Drain(ht', iter(ht'))) = len(ht') + Len(ht'.tails.entries)
    ]_vars

\* A key stored in table1, the tail list enabled, the key inserted again:
\* len() is 1 and iter() yields 2 entries.
C25_Witness ==
  /\ last.op \in InsertOps
  /\ last.tail
  /\ last.slot = Slot(5, 1)
  /\ KeyList[last.key] = <<1>>
  /\ len(ht) = 1
  /\ unsize_key_size(ht) = 1
  /\ Len(Drain(ht, iter(ht))) = 2

\* C26: clear() on a table whose tail list is enabled leaves the tail list
\* absent; from the cleared table a non-empty key of every class is inserted into the sub-table of its class with Ok, a second
\* insert of it returns Err with the same entry, and after
\* enable_tail_array() an insert of it appends a tail record again; the
\* insert a caller makes right after such a clear() goes to table0..table4.
C26_ClearTailOff ==
  [][ /\ (last'.op = "clear" /\ last'.tail) =>
           /\ ~ht'.tails.is_some
           /\ \A i \in SetKeyIds :
                KeyList[i] # <<>> =>
                  LET r1 == insert_and_entry(ht', TransientPtr(i))
                      t1 == write(r1.t, r1.slot, 0)
                      r2 == insert_and_entry(t1, TransientPtr(i))
                      r3 == insert_and_entry(enable_tail_array(t1), StablePtr(i))
                  IN /\ r1.res = "Ok"
                     /\ r1.slot.tbl = classify(KeyList[i])
                     /\ r2.res = "Err"
                     /\ r2.slot = r1.slot
                     /\ len(r2.t) = 1
                     /\ r3.res = "Ok"
                     /\ r3.slot = Slot(5, 1)
      /\ (last.op = "clear" /\ last.tail /\ last'.op \in InsertOps) =>
           /\ last'.res = "Ok"
           /\ last'.slot.tbl = classify(KeyList[last'.key])
    ]_vars

\* enable_tail_array(), an insert that went to the tail list, then clear().
C26_Witness ==
  /\ ops = 3
  /\ last.op = "clear"
  /\ last.tail
  /\ ~ht.tails.is_some
  /\ Drain(ht, iter(ht)) = <<>>

\* The pointers of the keys stored in table4 and in the tail list.
StoredPtrs(t) ==
  {t.table4.entries[j].key.ptr : j \in 1..Len(t.table4.entries)}
    \cup {t.tails.entries[j].key.ptr : j \in 1..Len(t.tails.entries)}

\* C28: get (entry mapped to its value) and iter() consumed to the end leave
\* every field of the table as it was: len(), key_size, the arena, the tail
\* list and table0..table4; and no stored key points to the memory of a probe
\* key a lookup was given.
C28_ReadOnly ==
  [][ last'.op \in {"get", "iter"} =>
        /\ ht' = ht
        /\ len(ht') = len(ht)
        /\ unsize_key_size(ht') = unsize_key_size(ht)
        /\ \A p \in StoredPtrs(ht') : p.region # "transient"
    ]_vars

\* A lookup of the 25-byte key, not stored, in a table whose table4 holds the
\* key <<1, 0>>: the probe is compared with a stored key and not kept.
C28_Witness ==
  /\ last.op = "get"
  /\ last.res = "None"
  /\ KeyList[last.key] = Rep(25, 1)
  /\ Len(ht.table4.entries) = 1
  /\ key_of(ht, Slot(4, 1)) = <<1, 0>>

\* C27: a table given a sequence of keys through insert_and_entry_borrowing,
\* insert_borrowing or set_insert and a table given the same keys through
\* insert_and_entry return the same Ok/Err with the same entry, route every
\* key to the sub-table of its class, and agree on len(), key_size, table0
\* to table3, the tail list and the keys, hashes and values of table4; they
\* differ in that the first keeps in table4 pointers to the caller's memory
\* and an empty arena, the second pointers to one arena copy per table4 key.
C27_BorrowingEquiv ==
  /\ last.op \in BorrowOps =>
       /\ twin.res = last.res
       /\ twin.slot = last.slot
       /\ ~last.tail => last.slot.tbl = classify(KeyList[last.key])
  /\ len(ht) = len(twin.t)
  /\ unsize_key_size(ht) = unsize_key_size(twin.t)
  /\ \A tbl \in 0..3 : EntriesOf(ht, tbl) = EntriesOf(twin.t, tbl)
  /\ ht.tails = twin.t.tails
  /\ Len(ht.table4.entries) = Len(twin.t.table4.entries)
  /\ \A j \in 1..Len(ht.table4.entries) :
       LET e == ht.table4.entries[j]
           f == twin.t.table4.entries[j]
       IN /\ key_of(ht, Slot(4, j)) = key_of(twin.t, Slot(4, j))
          /\ e.key.hash = f.key.hash
          /\ e.val = f.val
          /\ e.key.ptr.region = "stable"
          /\ f.key.ptr.region = "arena"
  /\ ht.arena = <<>>
  /\ Len(twin.t.arena) = Len(twin.t.table4.entries)

\* The keys <<1, 0>> and 25 bytes taken by table4 of both tables: two borrowed
\* pointers and no arena copy on one side, two arena copies on the other.
C27_Witness ==
  /\ last.op \in BorrowOps
  /\ Len(ht.table4.entries) = 2
  /\ {key_of(ht, Slot(4, 1)), key_of(ht, Slot(4, 2))} = {<<1, 0>>, Rep(25, 1)}
  /\ ht.arena = <<>>
  /\ Len(twin.t.arena) = 2
  /\ unsize_key_size(ht) = 27

\* C29: as long as async_process has not been called, event() returns
\* Event::Async and leaves both ports and the processor as they were; on_start
\* is called at most once, also when it returned an error, and at its call no
\* block has been pulled or passed to transform; a block is pulled or passed
\* to transform only after on_start has been called.
C29_StartUp ==
  [][ /\ (calls'.op = "event" /\ ~calls.asynced) =>
           /\ calls'.ev = "Async"
           /\ input' = input
           /\ output' = output
           /\ proc' = proc
      /\ calls'.on_start <= 1
      /\ calls'.on_start # calls.on_start =>
           /\ calls.pulled = <<>>
           /\ calls.transform = <<>>
           /\ ~calls.asynced
      /\ (calls'.pulled # calls.pulled \/ calls'.transform # calls.transform) =>
           calls.on_start = 1
    ]_vars

\* on_start returned an error at the first async_process; event() and
\* async_process were called again, a block was pulled and transformed, and
\* on_start has still been called once.
C29_Witness ==
  /\ calls.on_start = 1
  /\ calls.on_start_res = "Err"
  /\ calls.pulled = <<1>>
  /\ calls.transform = <<1>>
  /\ proc.output_data = <<transform(DataBlock(1))>>

\* C30: on_finish is called at most once; event() returns Event::Finished,
\* and finishes the input port or the output port, only when on_finish has
\* been called before; on_finish is called only when no input block is held.
C30_ShutDown ==
  [][ /\ calls'.on_finish <= 1
      /\ (calls'.op = "event" /\ calls'.ev = "Finished") =>
           /\ calls.on_finish = 1
           /\ proc.called_on_finish
           /\ input'.finished \/ output'.finished
      /\ (calls'.op = "event" /\ (input'.finished # input.finished
                                     \/ output'.finished # output.finished)) =>
           /\ calls'.ev = "Finished"
           /\ calls.on_finish = 1
      /\ calls'.on_finish # calls.on_finish =>
           /\ proc.input_data = <<>>
           /\ proc'.input_data = <<>>
           /\ Len(calls.transform) = Len(calls.pulled)
    ]_vars

\* Both blocks pulled, transformed and pushed, the input finished, on_finish
\* called, and event() has finished the output port and returned Finished.
C30_Witness ==
  /\ calls.op = "event"
  /\ calls.ev = "Finished"
  /\ calls.on_finish = 1
  /\ calls.pushed = <<1, 2>>
  /\ output.finished
  /\ ~output.need

\* C31: input_data and output_data are never both Some, and a block is pulled
\* from the input port only by event(), one at a time, when input_data and
\* output_data are both None and the output port is not finished and can be
\* pushed to; the block pulled is then held in input_data.
C31_OneInFlight ==
  [][ /\ ~(proc'.input_data # <<>> /\ proc'.output_data # <<>>)
      /\ calls'.pulled # calls.pulled =>
           /\ calls'.op = "event"
           /\ proc.input_data = <<>>
           /\ proc.output_data = <<>>
           /\ ~OutputPort_is_finished(output)
           /\ OutputPort_can_push(output)
           /\ Len(calls'.pulled) = Len(calls.pulled) + 1
           /\ Len(proc'.input_data) = 1
           /\ proc'.input_data[1].id = calls'.pulled[Len(calls'.pulled)]
    ]_vars

\* The first block pushed to the output and the second one just pulled.
C31_Witness ==
  /\ calls.op = "event"
  /\ calls.pulled = <<1, 2>>
  /\ calls.pushed = <<1>>
  /\ proc.input_data = <<DataBlock(2)>>
  /\ proc.output_data = <<>>

\* Sequence a is the beginning of sequence b.
IsPrefix(a, b) == Len(a) <= Len(b) /\ \A j \in 1..Len(a) : a[j] = b[j]

\* Sequence a is sequence b, or b without its last element, which is then the
\* id of the one block of held.
OneBehind(a, b, held) ==
  /\ IsPrefix(a, b)
  /\ Len(b) - Len(a) <= 1
  /\ Len(b) > Len(a) => (Len(held) = 1 /\ held[1].id = b[Len(b)])

\* C32: the blocks passed to transform are the blocks pulled, in pull order
\* and each once, the last pulled one possibly still held in input_data; the
\* blocks pushed are those transform returned a result for, in the same order
\* and each once, the last result possibly still held in output_data; what is
\* pushed for a block is the result of transform for it; and when event()
\* finishes the output port, every block pulled has been passed to transform
\* and every result has been pushed.
C32_StreamPreserved ==
  [][ /\ NoRepeat(calls'.pulled)
      /\ OneBehind(calls'.transform, calls'.pulled, proc'.input_data)
      /\ OneBehind(calls'.pushed, calls'.results, proc'.output_data)
      /\ \A j \in 1..Len(calls'.results) :
           \E k \in 1..Len(calls'.transform) : calls'.transform[k] = calls'.results[j]
      /\ calls'.transform # calls.transform =>
           /\ proc.input_data = <<DataBlock(calls.pulled[Len(calls.pulled)])>>
           /\ calls'.res = "Ok" => proc'.output_data = <<transform(proc.input_data[1])>>
      /\ calls'.pushed # calls.pushed =>
           /\ ~output.finished
           /\ output'.data =
                <<OkData(transform(DataBlock(calls'.pushed[Len(calls'.pushed)])))>>
      /\ (calls'.op = "event" /\ output'.finished /\ ~output.finished) =>
           /\ calls'.transform = calls'.pulled
           /\ calls'.pushed = calls'.results
           /\ proc'.input_data = <<>>
           /\ proc'.output_data = <<>>
    ]_vars

\* Two blocks pulled, transformed and pushed in order, taken by the
\* downstream processor, and the output port finished by event().
C32_Witness ==
  /\ calls.pulled = <<1, 2>>
  /\ calls.transform = <<1, 2>>
  /\ calls.results = <<1, 2>>
  /\ calls.pushed = <<1, 2>>
  /\ calls.ev = "Finished"
  /\ output.finished
  /\ output.data = <<>>

\* event() has work of its own pending: a block held in input_data and not
\* yet passed to transform, or on_finish not yet called with the output port
\* finished or the input port finished and nothing left to push.
PendingWork(p, in, out) ==
  /\ p.called_on_start
  /\ \/ p.input_data # <<>>
     \/ /\ ~p.called_on_finish
        /\ \/ OutputPort_is_finished(out)
           \/ /\ OutputPort_can_push(out)
              /\ p.output_data = <<>>
              /\ InputPort_is_finished(in)

\* C33: event() never returns Event::Sync; when it returns with work of its
\* own pending (a block pulled and not yet transformed, or on_finish still to
\* be called after the input or the output finished), it returns Event::Async.
C33_NeverSync ==
  [][ calls'.op = "event" =>
        /\ calls'.ev # "Sync"
        /\ (calls'.ev # "Err" /\ calls'.ev # "NeedConsume"
              /\ PendingWork(proc', input', output')) => calls'.ev = "Async"
    ]_vars

====
